---- MODULE Spec2Model ----
(***************************************************************************)
(* Model of the gemini-wrapper bridges.                                    *)
(*                                                                         *)
(*   - the interactive (persistent-session) bridge of gemini_service.go:   *)
(*     one long-lived subprocess on a pseudo-terminal, a reader goroutine, *)
(*     a single consumer goroutine draining questionCh, and callers of Ask *)
(*   - the headless bridge (one subprocess per question under a mutex).    *)
(*                                                                         *)
(* Text is modelled as a sequence of tokens.  A token is one character or  *)
(* one indivisible phrase the code searches for ("Type your message",      *)
(* "Waiting for auth", a question text, ...).                              *)
(***************************************************************************)
EXTENDS Integers, Sequences, FiniteSets, TLC

VARIABLES
    ready,        \* GeminiService.ready
    questionCh,   \* GeminiService.questionCh: queued questionRequest values
    outputCh,     \* GeminiService.outputCh: cleaned lines awaiting the consumer
    respCh,       \* the responseCh of every request (buffer of capacity 1)
    pc,           \* per caller: where its Ask call stands
    callNo,       \* per caller: number of the Ask call it is in (0 before the first)
    callsLeft,    \* per caller: Ask calls it may still start
    result,       \* per caller: what its last Ask call returned
    sessPc,       \* where the session goroutine (startGeminiSession) stands
    req,          \* the request processQuestions is serving
    collecting,   \* askQuestion's local collecting
    answer,       \* askQuestion's local answer (strings.Builder contents)
    pending,      \* askQuestion's return value, not yet sent on responseCh
    alive,        \* whether the gemini subprocess runs
    hint,         \* per caller: the model argument of its Ask call
    procModel,    \* the model gemini was last switched to ("": its own choice)
    procCur,      \* the question gemini is answering (NoQuestion: none yet)
    ptyOut,       \* lines gemini wrote, not yet scanned by readOutput
    budget,       \* lines gemini may still emit
    feed,         \* history: the lines outputCh held when the collection began
    quiet,        \* history: the quiet threshold has passed since the last line
    exitBy,       \* history: what made askQuestion return (until the response is sent)
    ended,        \* history, per caller: how the exchange of its call ended
    enqCount,     \* history: how many requests have entered questionCh
    sentSeq,      \* history: rank in questionCh of the last question written
    doneCount,    \* history: how many responses processQuestions has sent
    hpc,          \* headless: per caller, where its Ask call stands
    mu,           \* headless: holder of GeminiService.mu (NoCaller: unlocked)
    cmd,          \* headless: per caller, state of the subprocess it spawned
    hout,         \* headless: per caller, the combined output captured
    hresult,      \* headless: per caller, what Ask returned
    ppc,          \* parsing: which function of the output parsing runs next
    prefix,       \* parsing: the blob is prefix, then object, then suffix
    object,       \* parsing: a JSON object gemini printed (<<>>: none)
    suffix,       \* parsing: what follows the object in the blob
    extracted,    \* parsing: what extractLastJSONObject returned
    parseResult,  \* parsing: what parseGeminiOutput returned
    given,        \* parsing: the response handed to detectUpstreamStatus
    upstream,     \* parsing: what detectUpstreamStatus returned
    outcome,      \* parsing: what Ask returns for the blob, per exit (ok, failed)
    spawns,       \* startup, history: how many times pty.Start was called
    readyCh,      \* startup: GeminiService.readyCh (buffer of capacity 1)
    ctorPc,       \* startup: where NewGeminiService stands
    promptSeen,   \* startup: the wait for the prompt took a prompt line in
    httpReq,      \* handlers: per caller, the request its handler is serving
    httpResp,     \* handlers: per caller, the response its handler wrote
    asked,        \* handlers, history: per caller, Ask calls made for its request
    tpc,          \* pty per call: per caller, where its Ask call stands
    tmu,          \* pty per call: holder of GeminiService.mu (NoCaller: unlocked)
    rpc,          \* pty per call: per caller, where the reader goroutine of its call stands
    tproc,        \* pty per call: per caller, state of the subprocess its call started
    tsig,         \* pty per call: per caller, what Ask sent that subprocess, in order
    tlines,       \* pty per call: per caller, lineCount of the reader
    tbuf,         \* pty per call: per caller, outputBuffer of its call
    tresult,      \* pty per call: per caller, what Ask returned
    fpc,          \* filter: which application of the line filter comes next
    raw,          \* filter: a raw line of terminal output
    once,         \* filter: the filter applied to raw
    twice         \* filter: the filter applied to the clean line of once

ivars == <<ready, questionCh, outputCh, respCh, pc, callNo, callsLeft,
           result, sessPc, req, collecting, answer, pending, alive,
           hint, procModel, procCur, ptyOut, budget, feed, quiet, exitBy, ended,
           enqCount, sentSeq, doneCount>>

hvars == <<hpc, mu, cmd, hout, hresult>>

pvars == <<ppc, prefix, object, suffix, extracted, parseResult, given, upstream,
           outcome>>

lvars == <<spawns, readyCh, ctorPc, promptSeen>>

wvars == <<httpReq, httpResp, asked>>

tvars == <<tpc, tmu, rpc, tproc, tsig, tlines, tbuf, tresult>>

fvars == <<fpc, raw, once, twice>>

vars == <<ivars, hvars, pvars, lvars, wvars, tvars, fvars>>

----------------------------------------------------------------------------
(* Bounds of the model *)

NumCallers == 2
MaxEmit == 2
BacklogCalls == 11
FeedLen == 4
MaxPrefixLen == 2
MaxSuffixLen == 1

(* Program constants *)

QuestionChCap == 10
OutputChCap == 100
RespChCap == 1

Callers == 1..NumCallers
NoCaller == 0
NoQuestion == 0

----------------------------------------------------------------------------
(* Text helpers (package strings) *)

Whitespace == {" ", "\n", "\t"}

RECURSIVE TrimLeft(_)
TrimLeft(s) ==
    IF s = <<>> THEN <<>>
    ELSE IF Head(s) \in Whitespace THEN TrimLeft(Tail(s)) ELSE s

RECURSIVE TrimRight(_)
TrimRight(s) ==
    IF s = <<>> THEN <<>>
    ELSE IF s[Len(s)] \in Whitespace THEN TrimRight(SubSeq(s, 1, Len(s) - 1)) ELSE s

TrimSpace(s) == TrimRight(TrimLeft(s))

\* strings.Contains(s, sub): sub occurs in s as a contiguous run
Contains(s, sub) ==
    \E i \in 1..(Len(s) + 1) :
        /\ i + Len(sub) - 1 <= Len(s)
        /\ SubSeq(s, i, i + Len(sub) - 1) = sub

HasPrefix(s, p) == Len(s) >= Len(p) /\ SubSeq(s, 1, Len(p)) = p

----------------------------------------------------------------------------
(* The line filter of gemini_service.go *)

\* escape sequences ansiEscapeRegex matches, each one token
AnsiSequences == {"ESC[0m", "ESC[2K", "ESC]0;title BEL", "ESC[?25l"}

NotAnsi(t) == t \notin AnsiSequences

\* single characters: the final letters and the parameter characters of an
\* escape sequence
AnsiLetters == {"m", "K", "H", "n"}
AnsiParams == {"0", "1", "2", "3", "4", "5", "6", "7", "8", "9", ";", "?"}

\* index of the first token of s after index i that is in set (0: none)
FirstIn(s, i, set) ==
    IF \E j \in (i + 1)..Len(s) : s[j] \in set
    THEN CHOOSE j \in (i + 1)..Len(s) :
             s[j] \in set /\ \A k \in (i + 1)..(j - 1) : s[k] \notin set
    ELSE 0

\* ansiEscapeRegex at the start of s: the length of its match (0: no match).
\* The alternatives are tried in the order of the expression.
ansiEscapeRegex(s) ==
    IF s = <<>> THEN 0
    ELSE IF ~NotAnsi(s[1]) THEN 1
    ELSE IF s[1] # "ESC" \/ Len(s) < 2 THEN 0
    ELSE IF s[2] = "[" THEN
        \* \x1b\[[0-9;?]*[a-zA-Z] (which covers \x1b\[[\d;]*[mGKHfJhlr])
        LET stop == FirstIn(s, 2, {s[j] : j \in 3..Len(s)} \ AnsiParams) IN
        IF stop # 0 /\ s[stop] \in AnsiLetters THEN stop ELSE 0
    ELSE IF s[2] = "]" THEN
        \* \x1b\][^\x07]*\x07, else \x1b\]11;?\x1b\\
        IF FirstIn(s, 2, {"BEL"}) # 0 THEN FirstIn(s, 2, {"BEL"})
        ELSE IF HasPrefix(s, <<"ESC", "]", "1", "1", ";", "ESC", "\\">>) THEN 7
        ELSE IF HasPrefix(s, <<"ESC", "]", "1", "1", "ESC", "\\">>) THEN 6
        ELSE 0
    ELSE IF s[2] \in {"=", ">"} THEN
        \* \x1b[=>].*?[a-zA-Z]
        FirstIn(s, 2, AnsiLetters)
    ELSE 0

RECURSIVE ReplaceAll(_)
\* ansiEscapeRegex.ReplaceAllString(str, ""): the matches are found from left to
\* right in str, none in what a removal leaves behind
ReplaceAll(str) ==
    IF str = <<>> THEN <<>>
    ELSE IF ansiEscapeRegex(str) > 0
    THEN ReplaceAll(SubSeq(str, ansiEscapeRegex(str) + 1, Len(str)))
    ELSE <<Head(str)>> \o ReplaceAll(Tail(str))

stripANSI(str) == ReplaceAll(str)

Decorations == {"<light-shade x3>", "<full-block x3>", "<box-top>", "<box-side>",
                "<box-bottom>"}

BannerPhrases == {"GEMINI", "with Gemini", "Tips for getting started",
                  "Ask questions, edit files, or run commands",
                  "Be specific for the best results", "Create GEMINI.md files",
                  "customize your interactions", "/help for more information",
                  "directory.", "Gemini 3 Flash and Pro",
                  "Enable \"Preview features\"", "Learn more at",
                  "Warning you are running", "This warning can be disabled"}

StatusPhrases == {"no sandbox", "Auto (Gemini", "Type your message", "/model"}

Digits == {"1", "2", "3", "4", "5", "6", "7", "8", "9"}

HasToken(line, set) == \E i \in 1..Len(line) : line[i] \in set

shouldSkipLine(line) ==
    LET trimmed == TrimSpace(line) IN
    \/ trimmed = <<>>
    \/ HasToken(line, Decorations)
    \/ HasToken(line, BannerPhrases)
    \/ HasToken(line, StatusPhrases)
    \/ HasPrefix(trimmed, <<"~">>)
    \/ HasPrefix(trimmed, <<">">>)
    \/ (Len(trimmed) > 1 /\ trimmed[1] \in Digits /\ trimmed[2] = ".")

isPromptLine(line) ==
    \/ HasToken(line, {"Type your message"})
    \/ (TrimSpace(line) # <<>> /\ HasPrefix(TrimSpace(line), <<"~">>))

AuthMarker == <<"Waiting for auth">>

----------------------------------------------------------------------------
(* Requests, responses and errors of the interactive bridge *)

\* the question text caller c asks: callers ask distinct questions
QuestionWords == <<"alpha", "beta", "gamma", "delta">>

Question(c) == <<QuestionWords[c]>>

\* model hints a caller may pass; "" lets the tool choose
Models == {"", "flash"}

ErrNone == "nil"
ErrNotReady == "gemini session not ready"
ErrSetModel == "failed to set model"
ErrWrite == "failed to write question"
ErrAuth == "authentication required during question processing"
ErrExchangeTimeout == "timeout waiting for gemini response"
ErrNoResponse == "no response from gemini"
ErrAskTimeout == "timeout waiting for response"

questionResponse(a, e) == [answer |-> a, err |-> e]

NoResult == [answer |-> <<>>, err |-> "pending"]

ReqIds == Callers \X (1..BacklogCalls)

\* seq is not a field of the code's struct: it records the request's rank in
\* questionCh, for the ordering properties
questionRequest(c, n, m, k) ==
    [id |-> <<c, n>>, question |-> Question(c), model |-> m, seq |-> k]

NoRequest == [id |-> <<NoCaller, 0>>, question |-> <<>>, model |-> "", seq |-> 0]

\* the lines gemini may print while it answers the question of caller q
\* (q = NoQuestion: no question read yet)
AnswerWords == <<"one", "two", "three", "four">>

AnswerLine(q) == <<"ESC[0m", " ", AnswerWords[q]>>

EchoLine(q) == Question(q) \o <<"?">>

BlankLine == <<" ">>

PromptLine == <<"ESC[2K", "Type your message">>

BannerLine == <<"<box-side>", " ", "GEMINI">>

EmitLines(q) ==
    {PromptLine, BannerLine, AuthMarker}
    \cup (IF q = NoQuestion THEN {} ELSE {AnswerLine(q), EchoLine(q)})

----------------------------------------------------------------------------
(* askQuestion's collection loop, as functions of its locals *)

\* Finish without the strings.TrimSpace of the collected text
FinishUntrimmed(ans) ==
    IF ans = <<>> THEN questionResponse(<<>>, ErrNoResponse)
    ELSE questionResponse(ans, ErrNone)

\* the code after the done label
Finish(ans) ==
    LET res == TrimSpace(ans) IN
    IF res = <<>> THEN questionResponse(<<>>, ErrNoResponse)
    ELSE questionResponse(res, ErrNone)

\* case <-timeout with a jump to the done label instead of its own returns
OnExchangeTimeoutGotoDone(ans) == Finish(ans)

\* case <-timeout
OnExchangeTimeout(ans) ==
    IF Len(ans) > 0 THEN questionResponse(TrimSpace(ans), ErrNone)
    ELSE questionResponse(<<>>, ErrExchangeTimeout)

\* case line := <-s.outputCh: what one received line does to the locals.
\* next is "continue" (keep reading) or "return" (askQuestion returns ret).
Step(next, coll, ans, ret) == [next |-> next, collecting |-> coll, answer |-> ans, ret |-> ret]

\* OnLine where a skipped line received while collecting ends the collection
OnLineEndsOnSkipped(line, question, coll, ans) ==
    IF isPromptLine(line) THEN
        IF coll THEN Step("return", coll, ans, Finish(ans))
        ELSE Step("continue", coll, ans, NoResult)
    ELSE IF shouldSkipLine(line) THEN
        IF coll THEN Step("return", coll, ans, Finish(ans))
        ELSE Step("continue", coll, ans, NoResult)
    ELSE IF Contains(line, question) THEN Step("continue", coll, ans, NoResult)
    ELSE IF Contains(line, AuthMarker) THEN
        Step("return", coll, ans, questionResponse(<<>>, ErrAuth))
    ELSE IF TrimSpace(line) # <<>> THEN
        Step("continue", TRUE, ans \o line \o <<"\n">>, NoResult)
    ELSE Step("continue", coll, ans, NoResult)

\* OnLine without the check for the echo of the question
OnLineCollectsEcho(line, question, coll, ans) ==
    IF isPromptLine(line) THEN
        IF coll THEN Step("return", coll, ans, Finish(ans))
        ELSE Step("continue", coll, ans, NoResult)
    ELSE IF shouldSkipLine(line) THEN Step("continue", coll, ans, NoResult)
    ELSE IF Contains(line, AuthMarker) THEN
        Step("return", coll, ans, questionResponse(<<>>, ErrAuth))
    ELSE IF TrimSpace(line) # <<>> THEN
        Step("continue", TRUE, ans \o line \o <<"\n">>, NoResult)
    ELSE Step("continue", coll, ans, NoResult)

\* OnLine where every prompt line ends the exchange
OnLinePromptAlwaysEnds(line, question, coll, ans) ==
    IF isPromptLine(line) THEN Step("return", coll, ans, Finish(ans))
    ELSE IF shouldSkipLine(line) THEN Step("continue", coll, ans, NoResult)
    ELSE IF Contains(line, question) THEN Step("continue", coll, ans, NoResult)
    ELSE IF Contains(line, AuthMarker) THEN
        Step("return", coll, ans, questionResponse(<<>>, ErrAuth))
    ELSE IF TrimSpace(line) # <<>> THEN
        Step("continue", TRUE, ans \o line \o <<"\n">>, NoResult)
    ELSE Step("continue", coll, ans, NoResult)

OnLine(line, question, coll, ans) ==
    IF isPromptLine(line) THEN
        IF coll THEN Step("return", coll, ans, Finish(ans))
        ELSE Step("continue", coll, ans, NoResult)
    ELSE IF shouldSkipLine(line) THEN Step("continue", coll, ans, NoResult)
    ELSE IF Contains(line, question) THEN Step("continue", coll, ans, NoResult)
    ELSE IF Contains(line, AuthMarker) THEN
        Step("return", coll, ans, questionResponse(<<>>, ErrAuth))
    ELSE IF TrimSpace(line) # <<>> THEN
        Step("continue", TRUE, ans \o line \o <<"\n">>, NoResult)
    ELSE Step("continue", coll, ans, NoResult)


----------------------------------------------------------------------------
(* The interactive bridge: callers of Ask *)

callerVars == <<pc, callNo, callsLeft, result, hint>>
sessVars == <<sessPc, req, collecting, answer, pending>>
procVars == <<alive, procModel, procCur, ptyOut, budget>>
logVars == <<enqCount, sentSeq, doneCount>>
obsVars == <<feed, quiet, exitBy, ended>>

MyReq(c) == <<c, callNo[c]>>

\* Ask without the readiness check
AskCallUnchecked(c, m) ==
    /\ pc[c] \in {"idle", "returned"}
    /\ callsLeft[c] > 0
    /\ callsLeft' = [callsLeft EXCEPT ![c] = @ - 1]
    /\ callNo' = [callNo EXCEPT ![c] = @ + 1]
    /\ result' = [result EXCEPT ![c] = NoResult]
    /\ pc' = [pc EXCEPT ![c] = "send"]
    /\ hint' = [hint EXCEPT ![c] = m]
    /\ ended' = [ended EXCEPT ![c] = "none"]
    /\ UNCHANGED <<ready, questionCh, outputCh, respCh, sessVars, procVars, logVars,
                   feed, quiet, exitBy, hvars, pvars,
                   lvars, wvars, tvars, fvars>>

\* Ask, up to the send on questionCh: the readiness check, the response channel
AskCall(c, m) ==
    /\ pc[c] \in {"idle", "returned"}
    /\ callsLeft[c] > 0
    /\ callsLeft' = [callsLeft EXCEPT ![c] = @ - 1]
    /\ callNo' = [callNo EXCEPT ![c] = @ + 1]
    /\ IF ~ready
       THEN /\ result' = [result EXCEPT ![c] = questionResponse(<<>>, ErrNotReady)]
            /\ pc' = [pc EXCEPT ![c] = "returned"]
            /\ hint' = [hint EXCEPT ![c] = ""]
       ELSE /\ result' = [result EXCEPT ![c] = NoResult]
            /\ pc' = [pc EXCEPT ![c] = "send"]
            /\ hint' = [hint EXCEPT ![c] = m]
    /\ ended' = [ended EXCEPT ![c] = "none"]
    /\ UNCHANGED <<ready, questionCh, outputCh, respCh, sessVars, procVars, logVars,
                   feed, quiet, exitBy, hvars, pvars,
                   lvars, wvars, tvars, fvars>>

\* s.questionCh <- questionRequest{...}: blocks while the channel is full.
\* Ask's timer (time.After in the select that follows) starts only now.
AskSend(c) ==
    /\ pc[c] = "send"
    /\ Len(questionCh) < QuestionChCap
    /\ questionCh' = Append(questionCh,
                            questionRequest(c, callNo[c], hint[c], enqCount + 1))
    /\ enqCount' = enqCount + 1
    /\ pc' = [pc EXCEPT ![c] = "wait"]
    /\ hint' = [hint EXCEPT ![c] = ""]
    /\ UNCHANGED <<ready, outputCh, respCh, callNo, callsLeft, result, sessVars,
                   procVars, sentSeq, doneCount, obsVars, hvars, pvars,
                   lvars, wvars, tvars, fvars>>

\* Ask's timer runs exactly while the caller is in the select
AskTimerArmed(c) == pc[c] = "wait"

\* case resp := <-respCh
AskReceive(c) ==
    /\ pc[c] = "wait"
    /\ respCh[MyReq(c)] # <<>>
    /\ result' = [result EXCEPT ![c] = Head(respCh[MyReq(c)])]
    /\ respCh' = [respCh EXCEPT ![MyReq(c)] = Tail(@)]
    /\ pc' = [pc EXCEPT ![c] = "returned"]
    /\ UNCHANGED <<ready, questionCh, outputCh, callNo, callsLeft, hint, sessVars,
                   procVars, logVars, obsVars, hvars, pvars,
                   lvars, wvars, tvars, fvars>>

\* case <-time.After(90 * time.Second): the timer fires and the select takes it
AskTimeout(c) ==
    /\ AskTimerArmed(c)
    /\ result' = [result EXCEPT ![c] = questionResponse(<<>>, ErrAskTimeout)]
    /\ pc' = [pc EXCEPT ![c] = "returned"]
    /\ respCh' = [respCh EXCEPT ![MyReq(c)] = <<>>]
    /\ UNCHANGED <<ready, questionCh, outputCh, callNo, callsLeft, hint,
                   sessVars, procVars, logVars, obsVars, hvars, pvars,
                   lvars, wvars, tvars, fvars>>

----------------------------------------------------------------------------
(* The interactive bridge: the session goroutine *)

\* A response channel whose caller has left Ask is garbage: nothing will ever
\* read it, and what is sent on it is not kept in the model.
Abandoned(id) == ~(pc[id[1]] \in {"send", "wait"} /\ callNo[id[1]] = id[2])

\* what ends an exchange: a received line, the overall timeout, or a failed
\* write before the collection loop
ByLine(line) == [kind |-> "line", line |-> line]
ByTimeout == [kind |-> "timeout", line |-> <<>>]
ByFailure == [kind |-> "failure", line |-> <<>>]
NotEnded == [kind |-> "none", line |-> <<>>]

\* how the exchange ended, as the caller of the request may later be asked
Ending(by, coll) ==
    IF by.kind = "timeout" THEN (IF coll THEN "timeout-partial" ELSE "timeout-empty")
    ELSE by.kind

\* askQuestion returns ret; processQuestions has yet to send it
Return(ret, by) ==
    /\ pending' = ret
    /\ sessPc' = "respond"
    /\ exitBy' = by
    /\ quiet' = FALSE
    /\ ended' = IF callNo[req.id[1]] = req.id[2]
                THEN [ended EXCEPT ![req.id[1]] = Ending(by, collecting)]
                ELSE ended

\* Dequeue taking the newest request of the queue instead of the oldest
DequeueNewest ==
    /\ sessPc = "idle"
    /\ questionCh # <<>>
    /\ req' = questionCh[Len(questionCh)]
    /\ questionCh' = SubSeq(questionCh, 1, Len(questionCh) - 1)
    /\ sessPc' = "askQuestion"
    /\ UNCHANGED <<ready, outputCh, respCh, callerVars, collecting, answer, pending,
                   procVars, logVars, obsVars, hvars, pvars,
                   lvars, wvars, tvars, fvars>>

\* processQuestions: for req := range s.questionCh
Dequeue ==
    /\ sessPc = "idle"
    /\ questionCh # <<>>
    /\ req' = Head(questionCh)
    /\ questionCh' = Tail(questionCh)
    /\ sessPc' = "askQuestion"
    /\ UNCHANGED <<ready, outputCh, respCh, callerVars, collecting, answer, pending,
                   procVars, logVars, obsVars, hvars, pvars,
                   lvars, wvars, tvars, fvars>>

\* askQuestion, from its entry to the sleep after the model switch: the readiness
\* check, the drain of outputCh and the "/model" command.  A write to the
\* pseudo-terminal can fail once gemini has exited; gemini reads what is typed
\* at once.
AskQuestionBegin ==
    /\ sessPc = "askQuestion"
    /\ IF ~ready
       THEN /\ Return(questionResponse(<<>>, ErrNotReady), ByFailure)
            /\ UNCHANGED <<outputCh, procModel, collecting, answer>>
       ELSE /\ outputCh' = <<>>
            /\ IF req.model # ""
               THEN \/ /\ procModel' = IF alive THEN req.model ELSE procModel
                       /\ sessPc' = "modelSleep"
                       /\ UNCHANGED <<collecting, answer, pending, quiet, exitBy, ended>>
                    \/ /\ ~alive
                       /\ Return(questionResponse(<<>>, ErrSetModel), ByFailure)
                       /\ UNCHANGED <<procModel, collecting, answer>>
               ELSE /\ sessPc' = "writeQuestion"
                    /\ UNCHANGED <<procModel, collecting, answer, pending, quiet,
                                   exitBy, ended>>
    /\ UNCHANGED <<ready, questionCh, respCh, callerVars, req, alive, procCur, ptyOut,
                   budget, logVars, feed, hvars, pvars,
                   lvars, wvars, tvars, fvars>>

\* after time.Sleep(500ms): clear the model change output
AskQuestionAfterModel ==
    /\ sessPc = "modelSleep"
    /\ outputCh' = <<>>
    /\ sessPc' = "writeQuestion"
    /\ UNCHANGED <<ready, questionCh, respCh, callerVars, req, collecting, answer,
                   pending, procVars, logVars, obsVars, hvars, pvars,
                   lvars, wvars, tvars, fvars>>

\* send the question and enter the collection loop with fresh locals; the
\* exchange timer (time.After) starts here
AskQuestionWrite ==
    /\ sessPc = "writeQuestion"
    /\ \/ /\ procCur' = IF alive THEN req.id[1] ELSE procCur
          /\ sentSeq' = req.seq
          /\ sessPc' = "collect"
          /\ collecting' = FALSE
          /\ answer' = <<>>
          /\ UNCHANGED <<pending, quiet, exitBy, ended>>
       \/ /\ ~alive
          /\ Return(questionResponse(<<>>, ErrWrite), ByFailure)
          /\ UNCHANGED <<procCur, sentSeq, collecting, answer>>
    /\ UNCHANGED <<ready, questionCh, outputCh, respCh, callerVars, req, alive,
                   procModel, ptyOut, budget, enqCount, doneCount, feed, hvars, pvars,
                   lvars, wvars, tvars, fvars>>

\* askQuestion without its time.After: the exchange timer never fires
ExchangeTimerNever == FALSE

\* the exchange timer runs exactly while askQuestion is in its loop
ExchangeTimerArmed == sessPc = "collect"

\* case line := <-s.outputCh
AskQuestionLine ==
    /\ sessPc = "collect"
    /\ outputCh # <<>>
    /\ outputCh' = Tail(outputCh)
    /\ LET st == OnLine(Head(outputCh), req.question, collecting, answer) IN
       IF st.next = "return"
       THEN /\ Return(st.ret, ByLine(Head(outputCh)))
            /\ UNCHANGED <<collecting, answer>>
       ELSE /\ collecting' = st.collecting
            /\ answer' = st.answer
            /\ quiet' = FALSE
            /\ UNCHANGED <<sessPc, pending, exitBy, ended>>
    /\ UNCHANGED <<ready, questionCh, respCh, callerVars, req, procVars, logVars, feed,
                   hvars, pvars,
                   lvars, wvars, tvars, fvars>>

\* case <-timeout: the timer fires and the select takes it
AskQuestionTimeout ==
    /\ ExchangeTimerArmed
    /\ Return(OnExchangeTimeout(answer), ByTimeout)
    /\ UNCHANGED <<ready, questionCh, outputCh, respCh, callerVars, req, collecting,
                   answer, procVars, logVars, feed, hvars, pvars,
                   lvars, wvars, tvars, fvars>>

\* The quiet threshold passes: collection has started and no line has been
\* available since the last one was received.  The select of askQuestion has
\* no case for it: nothing happens.
QuietElapse ==
    /\ sessPc = "collect"
    /\ collecting
    /\ outputCh = <<>>
    /\ ~quiet
    /\ quiet' = TRUE
    /\ UNCHANGED <<ready, questionCh, outputCh, respCh, callerVars, sessVars, procVars,
                   logVars, feed, exitBy, ended, hvars, pvars,
                   lvars, wvars, tvars, fvars>>

\* processQuestions sending the response of a request twice
RespondTwice ==
    /\ sessPc = "respond"
    /\ Len(respCh[req.id]) < RespChCap
    /\ respCh' = [respCh EXCEPT ![req.id] = IF Abandoned(req.id) THEN @
                                            ELSE Append(Append(@, pending), pending)]
    /\ doneCount' = doneCount + 1
    /\ sessPc' = "idle"
    /\ req' = NoRequest
    /\ pending' = NoResult
    /\ collecting' = FALSE
    /\ answer' = <<>>
    /\ exitBy' = NotEnded
    /\ UNCHANGED <<ready, questionCh, outputCh, callerVars, procVars, enqCount,
                   sentSeq, feed, quiet, ended, hvars, pvars,
                   lvars, wvars, tvars, fvars>>

\* processQuestions: req.responseCh <- questionResponse{...}
Respond ==
    /\ sessPc = "respond"
    /\ Len(respCh[req.id]) < RespChCap
    /\ respCh' = [respCh EXCEPT ![req.id] = IF Abandoned(req.id) THEN @
                                                       ELSE Append(@, pending)]
    /\ doneCount' = doneCount + 1
    /\ sessPc' = "idle"
    /\ req' = NoRequest
    /\ pending' = NoResult
    /\ collecting' = FALSE
    /\ answer' = <<>>
    /\ exitBy' = NotEnded
    /\ UNCHANGED <<ready, questionCh, outputCh, callerVars, procVars, enqCount,
                   sentSeq, feed, quiet, ended, hvars, pvars,
                   lvars, wvars, tvars, fvars>>

----------------------------------------------------------------------------
(* The gemini subprocess on its pseudo-terminal, and readOutput *)

\* gemini prints a line
ProcEmit(line) ==
    /\ alive
    /\ budget > 0
    /\ budget' = budget - 1
    /\ ptyOut' = Append(ptyOut, line)
    /\ UNCHANGED <<ready, questionCh, outputCh, respCh, callerVars, sessVars, alive,
                   procModel, procCur, logVars, obsVars, hvars, pvars,
                   lvars, wvars, tvars, fvars>>

\* gemini exits or crashes; what it printed stays readable
ProcExit ==
    /\ alive
    /\ alive' = FALSE
    /\ budget' = 0
    /\ procCur' = NoQuestion
    /\ UNCHANGED <<ready, questionCh, outputCh, respCh, callerVars, sessVars,
                   procModel, ptyOut, logVars, obsVars, hvars, pvars,
                   lvars, wvars, tvars, fvars>>

\* readOutput: scanner.Scan, stripANSI, s.outputCh <- cleanLine
readOutput ==
    /\ ptyOut # <<>>
    /\ Len(outputCh) < OutputChCap
    /\ outputCh' = Append(outputCh, stripANSI(Head(ptyOut)))
    /\ ptyOut' = Tail(ptyOut)
    /\ UNCHANGED <<ready, questionCh, respCh, callerVars, sessVars, alive, procModel,
                   procCur, budget, logVars, obsVars, hvars, pvars,
                   lvars, wvars, tvars, fvars>>

----------------------------------------------------------------------------
(* The headless bridge: parsing of the captured output *)

\* ScanChar returning at the first opening brace after the end, at any depth
ScanCharInnermost(ch, i, depth, inString, escaped, end) ==
    LET go(d, s, e, n) ==
            [return |-> FALSE, depth |-> d, inString |-> s, escaped |-> e, end |-> n,
             start |-> i]
    IN
    IF inString THEN
        IF escaped THEN go(depth, inString, FALSE, end)
        ELSE IF ch = "\\" THEN go(depth, inString, TRUE, end)
        ELSE IF ch = "\"" THEN go(depth, FALSE, escaped, end)
        ELSE go(depth, inString, escaped, end)
    ELSE IF ch = "\"" THEN go(depth, TRUE, escaped, end)
    ELSE IF ch = "}" THEN go(depth + 1, inString, escaped, IF end = 0 THEN i ELSE end)
    ELSE IF ch = "{" /\ end # 0 THEN
        [return |-> TRUE, depth |-> depth - 1, inString |-> inString,
         escaped |-> escaped, end |-> end, start |-> i]
    ELSE go(depth, inString, escaped, end)

\* ScanChar without the end != -1 test, returning once depth is not positive
ScanCharAnyOpen(ch, i, depth, inString, escaped, end) ==
    LET go(d, s, e, n) ==
            [return |-> FALSE, depth |-> d, inString |-> s, escaped |-> e, end |-> n,
             start |-> i]
    IN
    IF inString THEN
        IF escaped THEN go(depth, inString, FALSE, end)
        ELSE IF ch = "\\" THEN go(depth, inString, TRUE, end)
        ELSE IF ch = "\"" THEN go(depth, FALSE, escaped, end)
        ELSE go(depth, inString, escaped, end)
    ELSE IF ch = "\"" THEN go(depth, TRUE, escaped, end)
    ELSE IF ch = "}" THEN go(depth + 1, inString, escaped, IF end = 0 THEN i ELSE end)
    ELSE IF ch = "{" THEN
        [return |-> depth - 1 <= 0, depth |-> depth - 1, inString |-> inString,
         escaped |-> escaped, end |-> end, start |-> i]
    ELSE go(depth, inString, escaped, end)

\* one iteration of the loop of extractLastJSONObject on the character ch at
\* index i: the locals after it, and whether the function returns there
ScanChar(ch, i, depth, inString, escaped, end) ==
    LET go(d, s, e, n) ==
            [return |-> FALSE, depth |-> d, inString |-> s, escaped |-> e, end |-> n,
             start |-> i]
    IN
    IF inString THEN
        IF escaped THEN go(depth, inString, FALSE, end)
        ELSE IF ch = "\\" THEN go(depth, inString, TRUE, end)
        ELSE IF ch = "\"" THEN go(depth, FALSE, escaped, end)
        ELSE go(depth, inString, escaped, end)
    ELSE IF ch = "\"" THEN go(depth, TRUE, escaped, end)
    ELSE IF ch = "}" THEN go(depth + 1, inString, escaped, IF end = 0 THEN i ELSE end)
    ELSE IF ch = "{" /\ end # 0 THEN
        [return |-> depth - 1 = 0, depth |-> depth - 1, inString |-> inString,
         escaped |-> escaped, end |-> end, start |-> i]
    ELSE go(depth, inString, escaped, end)

RECURSIVE ScanRange(_, _, _, _)
\* the iterations of the loop of extractLastJSONObject for i = hi down to lo,
\* entered with the locals st; nothing changes once the function has returned
ScanRange(outputStr, st, hi, lo) ==
    IF st.return \/ hi < lo THEN st
    ELSE IF hi = lo
    THEN ScanChar(outputStr[hi], hi, st.depth, st.inString, st.escaped, st.end)
    ELSE CHOOSE r \in
             {ScanRange(outputStr, upper, (hi + lo) \div 2, lo) :
                  upper \in {ScanRange(outputStr, st, hi, ((hi + lo) \div 2) + 1)}} :
             TRUE

\* the loop of extractLastJSONObject from index i down, with its locals
Scan(outputStr, i, depth, inString, escaped, end) ==
    LET last == CHOOSE r \in
                    {ScanRange(outputStr,
                               [return |-> FALSE, depth |-> depth, inString |-> inString,
                                escaped |-> escaped, end |-> end, start |-> 0],
                               i, 1)} : TRUE
    IN IF last.return
       THEN [json |-> SubSeq(outputStr, last.start, last.end), found |-> TRUE]
       ELSE [json |-> <<>>, found |-> FALSE]

\* indices are 1-based here: end = 0 stands for the code's end == -1
extractLastJSONObject(outputStr) == Scan(outputStr, Len(outputStr), 0, FALSE, FALSE, 0)

NoError == [Type |-> "", Message |-> "", Code |-> -1]

GeminiResponse(resp, err) == [Response |-> resp, Error |-> err]

ResponseError(type, message, code) == [Type |-> type, Message |-> message, Code |-> code]

Str(w) == <<"\"", w, "\"">>

Field(k, v) == Str(k) \o <<":">> \o v

ErrorObject(type, code) ==
    <<"{">> \o Field("type", Str(type)) \o <<",">> \o Field("message", Str("m"))
    \o <<",">> \o Field("code", <<code>>) \o <<"}">>

\* JSON objects gemini prints, with what json.Unmarshal makes of each
JsonOk == <<"{">> \o Field("response", Str("ok")) \o <<"}">>
JsonEmpty == <<"{">> \o Field("response", <<"\"", " ", "\"">>) \o <<"}">>
JsonRateLimited ==
    <<"{">> \o Field("response", Str("partial")) \o <<",">>
    \o Field("error", ErrorObject("RESOURCE_EXHAUSTED", "429")) \o <<"}">>
JsonNoModel ==
    <<"{">> \o Field("error", ErrorObject("ModelNotFoundError", "404")) \o <<"}">>
JsonFailure == <<"{">> \o Field("error", ErrorObject("Internal", "0")) \o <<"}">>
\* an answer beside an error that names an unknown model and carries code 429
JsonNoModelLimited ==
    <<"{">> \o Field("response", Str("partial")) \o <<",">>
    \o Field("error", ErrorObject("ModelNotFoundError", "429")) \o <<"}">>

JsonOkStats ==
    <<"{">> \o Field("response", Str("ok")) \o <<",">>
    \o Field("stats", <<"{">> \o Field("models", <<"{", "}">>) \o <<"}">>) \o <<"}">>
\* string values holding a brace, backslash-escaped quotes, a leading escape
JsonBraceText == <<"{">> \o Field("response", Str("}")) \o <<"}">>
JsonQuoted ==
    <<"{">> \o Field("response", <<"\"", "say", "\\", "\"", "hi", "\\", "\"", "\"">>)
    \o <<"}">>
JsonNewline == <<"{">> \o Field("response", <<"\"", "\\", "n", "hi", "\"">>) \o <<"}">>
JsonEmptyObject == <<"{", "}">>
\* objects without a response field: the error gemini logs before a retry, and
\* a bare code
JsonNoCapacity ==
    <<"{">> \o Field("error", <<"{">> \o Field("code", <<"429">>) \o <<",">>
                              \o Field("message", Str("No capacity")) \o <<"}">>)
    \o <<"}">>
JsonCodeOnly == <<"{", "\"code\": 429", "}">>

KnownJSON ==
    {[text |-> JsonOk, value |-> GeminiResponse(<<"ok">>, NoError)],
     [text |-> JsonOkStats, value |-> GeminiResponse(<<"ok">>, NoError)],
     [text |-> JsonBraceText, value |-> GeminiResponse(<<"}">>, NoError)],
     [text |-> JsonQuoted,
      value |-> GeminiResponse(<<"say", "\"", "hi", "\"">>, NoError)],
     [text |-> JsonNewline, value |-> GeminiResponse(<<"\n", "hi">>, NoError)],
     [text |-> JsonEmptyObject, value |-> GeminiResponse(<<>>, NoError)],
     [text |-> JsonNoCapacity,
      value |-> GeminiResponse(<<>>, ResponseError("", "No capacity", 429))],
     [text |-> JsonCodeOnly, value |-> GeminiResponse(<<>>, NoError)],
     [text |-> JsonEmpty, value |-> GeminiResponse(<<" ">>, NoError)],
     [text |-> JsonRateLimited,
      value |-> GeminiResponse(<<"partial">>,
                               ResponseError("RESOURCE_EXHAUSTED", "m", 429))],
     [text |-> JsonNoModel,
      value |-> GeminiResponse(<<>>, ResponseError("ModelNotFoundError", "m", 404))],
     [text |-> JsonNoModelLimited,
      value |-> GeminiResponse(<<"partial">>,
                               ResponseError("ModelNotFoundError", "m", 429))],
     [text |-> JsonFailure,
      value |-> GeminiResponse(<<>>, ResponseError("Internal", "m", 0))]}

\* json.Unmarshal into a GeminiResponse
Unmarshal(jsonStr) ==
    IF \E k \in KnownJSON : k.text = jsonStr
    THEN [ok |-> TRUE, value |-> (CHOOSE k \in KnownJSON : k.text = jsonStr).value]
    ELSE [ok |-> FALSE, value |-> GeminiResponse(<<>>, NoError)]

parseGeminiOutput(outputStr) ==
    LET ex == extractLastJSONObject(outputStr) IN
    IF ~ex.found THEN [ok |-> FALSE, value |-> GeminiResponse(<<>>, NoError)]
    ELSE Unmarshal(ex.json)

NoStatus == [HTTPStatus |-> 0, Code |-> "", Message |-> ""]

GeminiStatus(http, code, message) == [HTTPStatus |-> http, Code |-> code, Message |-> message]

StatusTooManyRequests == 429

RateLimitPhrases == {"\"code\": 429", "status 429", "Too Many Requests",
                     "rateLimitExceeded", "RESOURCE_EXHAUSTED"}

\* detectUpstreamStatus matching the phrasings before it looks at the error code
detectUpstreamStatusPhrasesFirst(outputStr, parsed, response) ==
    IF HasToken(outputStr, RateLimitPhrases)
    THEN GeminiStatus(StatusTooManyRequests, "RESOURCE_EXHAUSTED",
                      "Upstream rate limited or model capacity exhausted")
    ELSE IF parsed /\ response.Error # NoError /\ response.Error.Code # 0
    THEN GeminiStatus(response.Error.Code, response.Error.Type, response.Error.Message)
    ELSE NoStatus

\* detectUpstreamStatus matching the phrasings only when no response was parsed
detectUpstreamStatusNilOnly(outputStr, parsed, response) ==
    IF parsed /\ response.Error # NoError /\ response.Error.Code # 0
    THEN GeminiStatus(response.Error.Code, response.Error.Type, response.Error.Message)
    ELSE IF ~parsed /\ HasToken(outputStr, RateLimitPhrases)
    THEN GeminiStatus(StatusTooManyRequests, "RESOURCE_EXHAUSTED",
                      "Upstream rate limited or model capacity exhausted")
    ELSE NoStatus

\* detectUpstreamStatus returning a catch-all status instead of nil
detectUpstreamStatusDefault(outputStr, parsed, response) ==
    IF parsed /\ response.Error # NoError /\ response.Error.Code # 0
    THEN GeminiStatus(response.Error.Code, response.Error.Type, response.Error.Message)
    ELSE IF HasToken(outputStr, RateLimitPhrases)
    THEN GeminiStatus(StatusTooManyRequests, "RESOURCE_EXHAUSTED",
                      "Upstream rate limited or model capacity exhausted")
    ELSE GeminiStatus(500, "UNKNOWN", "")

\* parsed = FALSE stands for a nil response pointer
detectUpstreamStatus(outputStr, parsed, response) ==
    IF parsed /\ response.Error # NoError /\ response.Error.Code # 0
    THEN GeminiStatus(response.Error.Code, response.Error.Type, response.Error.Message)
    ELSE IF HasToken(outputStr, RateLimitPhrases)
    THEN GeminiStatus(StatusTooManyRequests, "RESOURCE_EXHAUSTED",
                      "Upstream rate limited or model capacity exhausted")
    ELSE NoStatus

HErrNone == "nil"
HErrModelNotFound == "model not found"
HErrAuthentication == "authentication error"
HErrGemini == "gemini error"
HErrExecute == "failed to execute gemini CLI"
HErrEmpty == "received empty response from gemini"

AskReturn(a, st, e) == [answer |-> a, status |-> st, err |-> e]

\* the fallback returning the raw output without strings.TrimSpace
FallbackRaw(outputStr, st) == AskReturn(outputStr, st, HErrNone)

\* no valid JSON found: return the raw output
Fallback(outputStr, st) == AskReturn(TrimSpace(outputStr), st, HErrNone)

\* Ask looking for an authentication failure before it looks for an unknown
\* model when the command returned an error
AskOutcomeAuthFirst(outputStr, failed) ==
    LET status == detectUpstreamStatus(outputStr, FALSE, GeminiResponse(<<>>, NoError))
        p == parseGeminiOutput(outputStr)
        response == p.value
        status2 == detectUpstreamStatus(outputStr, TRUE, response)
        ans == TrimSpace(response.Response)
        salvage == status2 # NoStatus /\ status2.HTTPStatus = StatusTooManyRequests
                   /\ ans # <<>>
    IN
    IF failed THEN
        IF HasToken(outputStr, {"authentication", "auth"})
        THEN AskReturn(<<>>, status, HErrAuthentication)
        ELSE IF HasToken(outputStr, {"ModelNotFoundError", "not found"})
        THEN AskReturn(<<>>, status, HErrModelNotFound)
        ELSE IF p.ok /\ response.Error # NoError
        THEN (IF salvage THEN AskReturn(ans, status2, HErrNone)
              ELSE AskReturn(<<>>, status2, HErrGemini))
        ELSE IF p.ok /\ ans # <<>> THEN AskReturn(ans, status2, HErrNone)
        ELSE AskReturn(<<>>, IF p.ok THEN status2 ELSE status, HErrExecute)
    ELSE IF ~p.ok THEN Fallback(outputStr, status)
    ELSE IF response.Error # NoError THEN
        IF salvage THEN AskReturn(ans, status2, HErrNone)
        ELSE IF HasToken(<<response.Error.Type, response.Error.Message>>,
                         {"ModelNotFoundError", "not found"})
        THEN AskReturn(<<>>, status2, HErrModelNotFound)
        ELSE AskReturn(<<>>, status2, HErrGemini)
    ELSE IF ans = <<>> THEN AskReturn(<<>>, status2, HErrEmpty)
    ELSE AskReturn(ans, status2, HErrNone)

\* Ask giving up on every error of the command, without looking for an answer
\* in its output
AskOutcomeFailsOnExit(outputStr, failed) ==
    IF failed
    THEN AskReturn(<<>>,
                   detectUpstreamStatus(outputStr, FALSE, GeminiResponse(<<>>, NoError)),
                   HErrExecute)
    ELSE AskOutcomeAuthFirst(outputStr, FALSE)

\* Ask returning, beside an error, the response text it found in the output
AskOutcomeKeepsAnswer(outputStr, failed) ==
    LET r == AskOutcomeAuthFirst(outputStr, failed)
        p == parseGeminiOutput(outputStr)
    IN IF r.err # HErrNone /\ p.ok
       THEN AskReturn(TrimSpace(p.value.Response), r.status, r.err)
       ELSE r

\* Ask of the headless bridge after cmd.CombinedOutput(): failed tells whether
\* the command returned an error
AskOutcome(outputStr, failed) ==
    LET status == detectUpstreamStatus(outputStr, FALSE, GeminiResponse(<<>>, NoError))
        p == parseGeminiOutput(outputStr)
        response == p.value
        status2 == detectUpstreamStatus(outputStr, TRUE, response)
        ans == TrimSpace(response.Response)
        salvage == status2 # NoStatus /\ status2.HTTPStatus = StatusTooManyRequests
                   /\ ans # <<>>
    IN
    IF failed THEN
        IF HasToken(outputStr, {"ModelNotFoundError", "not found"})
        THEN AskReturn(<<>>, status, HErrModelNotFound)
        ELSE IF HasToken(outputStr, {"authentication", "auth"})
        THEN AskReturn(<<>>, status, HErrAuthentication)
        ELSE IF p.ok /\ response.Error # NoError
        THEN (IF salvage THEN AskReturn(ans, status2, HErrNone)
              ELSE AskReturn(<<>>, status2, HErrGemini))
        ELSE IF p.ok /\ ans # <<>> THEN AskReturn(ans, status2, HErrNone)
        ELSE AskReturn(<<>>, IF p.ok THEN status2 ELSE status, HErrExecute)
    ELSE IF ~p.ok THEN Fallback(outputStr, status)
    ELSE IF response.Error # NoError THEN
        IF salvage THEN AskReturn(ans, status2, HErrNone)
        ELSE IF HasToken(<<response.Error.Type, response.Error.Message>>,
                         {"ModelNotFoundError", "not found"})
        THEN AskReturn(<<>>, status2, HErrModelNotFound)
        ELSE AskReturn(<<>>, status2, HErrGemini)
    ELSE IF ans = <<>> THEN AskReturn(<<>>, status2, HErrEmpty)
    ELSE AskReturn(ans, status2, HErrNone)

----------------------------------------------------------------------------
(* The interactive bridge after NewGeminiService has returned *)

\* what a handler is given: the route, whether c.Bind succeeds, whether the
\* body has contents[0].parts[0], the question text and the model
HttpRequest(route, bind, parts, question, model) ==
    [route |-> route, bind |-> bind, parts |-> parts, question |-> question,
     model |-> model]

NoHttpRequest == HttpRequest("none", TRUE, TRUE, <<>>, "")

\* c.JSON(code, ...): the HTTP status and the answer, error and status fields
HttpResponse(code, ans, err, st) ==
    [code |-> code, answer |-> ans, error |-> err, status |-> st]

NoHttpResponse == HttpResponse(0, <<>>, "", NoStatus)

HeadlessIdle ==
    /\ hpc = [c \in Callers |-> "idle"]
    /\ mu = NoCaller
    /\ cmd = [c \in Callers |-> "none"]
    /\ hout = [c \in Callers |-> <<>>]
    /\ hresult = [c \in Callers |-> AskReturn(<<>>, NoStatus, "pending")]
    /\ httpReq = [c \in Callers |-> NoHttpRequest]
    /\ httpResp = [c \in Callers |-> NoHttpResponse]
    /\ asked = [c \in Callers |-> 0]

\* no Ask call of the per-call pseudo-terminal bridge has begun
PtyIdle ==
    /\ tpc = [c \in Callers |-> "idle"]
    /\ tmu = NoCaller
    /\ rpc = [c \in Callers |-> "none"]
    /\ tproc = [c \in Callers |-> "none"]
    /\ tsig = [c \in Callers |-> <<>>]
    /\ tlines = [c \in Callers |-> 0]
    /\ tbuf = [c \in Callers |-> <<>>]
    /\ tresult = [c \in Callers |-> NoResult]

\* the result of the line filter: the clean line and whether it is noise
Filtered(clean, isNoise) == [clean |-> clean, isNoise |-> isNoise]

\* no line is being filtered
FilterIdle ==
    /\ fpc = "idle"
    /\ raw = <<>>
    /\ once = Filtered(<<>>, FALSE)
    /\ twice = Filtered(<<>>, FALSE)

\* no output is being parsed
ParserIdle ==
    /\ ppc = "idle"
    /\ prefix = <<>>
    /\ object = <<>>
    /\ suffix = <<>>
    /\ extracted = [json |-> <<>>, found |-> FALSE]
    /\ parseResult = [ok |-> FALSE, value |-> GeminiResponse(<<>>, NoError)]
    /\ given = [ok |-> FALSE, value |-> GeminiResponse(<<>>, NoError)]
    /\ upstream = NoStatus
    /\ outcome = [failed \in BOOLEAN |-> AskReturn(<<>>, NoStatus, "pending")]

InitSession(calls, others, lines) ==
    /\ ready \in BOOLEAN
    /\ alive = ready
    /\ sessPc = IF ready THEN "idle" ELSE "exited"
    /\ questionCh = <<>>
    /\ outputCh = <<>>
    /\ respCh = [id \in ReqIds |-> <<>>]
    /\ pc = [c \in Callers |-> "idle"]
    /\ callNo = [c \in Callers |-> 0]
    /\ callsLeft = [c \in Callers |-> IF c = 1 THEN calls ELSE others]
    /\ result = [c \in Callers |-> NoResult]
    /\ hint = [c \in Callers |-> ""]
    /\ req = NoRequest
    /\ collecting = FALSE
    /\ answer = <<>>
    /\ pending = NoResult
    /\ procModel = ""
    /\ procCur = NoQuestion
    /\ ptyOut = <<>>
    /\ budget = IF ready THEN lines ELSE 0
    /\ feed = <<>>
    /\ quiet = FALSE
    /\ exitBy = NotEnded
    /\ ended = [c \in Callers |-> "none"]
    /\ enqCount = 0
    /\ sentSeq = 0
    /\ doneCount = 0
    /\ spawns = 1
    /\ readyCh = <<>>
    /\ ctorPc = "returned"
    /\ promptSeen = ready
    /\ HeadlessIdle
    /\ PtyIdle

Init == InitSession(1, 1, MaxEmit) /\ ParserIdle /\ FilterIdle

CallerStep ==
    \E c \in Callers :
        \/ \E m \in Models : AskCall(c, m)
        \/ AskSend(c)
        \/ AskReceive(c)
        \/ AskTimeout(c)

SessionStep ==
    \/ Dequeue
    \/ AskQuestionBegin
    \/ AskQuestionAfterModel
    \/ AskQuestionWrite
    \/ AskQuestionLine
    \/ AskQuestionTimeout
    \/ QuietElapse
    \/ Respond

ProcStep ==
    \/ \E line \in EmitLines(procCur) : ProcEmit(line)
    \/ ProcExit
    \/ readOutput

Next == CallerStep \/ SessionStep \/ ProcStep

Spec == Init /\ [][Next]_vars

----------------------------------------------------------------------------
(* A backlog: the first caller calls Ask again after each return, the others
   call once; no model hints; gemini prints nothing and does not exit, so that
   every exchange lasts until its timeout and questionCh fills up *)

InitBacklog == InitSession(BacklogCalls, 1, 0) /\ ParserIdle /\ FilterIdle

NextBacklog ==
    \/ \E c \in Callers :
        \/ AskCall(c, "")
        \/ AskSend(c)
        \/ AskReceive(c)
        \/ AskTimeout(c)
    \/ Dequeue
    \/ AskQuestionBegin
    \/ AskQuestionWrite
    \/ AskQuestionTimeout
    \/ Respond

SpecBacklog == InitBacklog /\ [][NextBacklog]_vars

\* Go schedules every runnable goroutine and fires every timer: each step of
\* Ask and of the session goroutine that stays possible is eventually taken.
\* Nothing obliges a caller to call Ask, nor gemini to print or to exit.
Fairness ==
    /\ \A c \in Callers :
        WF_vars(AskSend(c)) /\ WF_vars(AskReceive(c)) /\ WF_vars(AskTimeout(c))
    /\ WF_vars(Dequeue)
    /\ WF_vars(AskQuestionBegin)
    /\ WF_vars(AskQuestionAfterModel)
    /\ WF_vars(AskQuestionWrite)
    /\ WF_vars(AskQuestionTimeout)
    /\ WF_vars(Respond)

FairSpecBacklog == SpecBacklog /\ Fairness

----------------------------------------------------------------------------
(* The interactive bridge from NewGeminiService on: the constructor has made
   the channels and started the session goroutine *)

InitLifecycle ==
    /\ ready = FALSE
    /\ alive = FALSE
    /\ sessPc = "start"
    /\ ctorPc = "wait"
    /\ promptSeen = FALSE
    /\ readyCh = <<>>
    /\ spawns = 0
    /\ questionCh = <<>>
    /\ outputCh = <<>>
    /\ respCh = [id \in ReqIds |-> <<>>]
    /\ pc = [c \in Callers |-> "idle"]
    /\ callNo = [c \in Callers |-> 0]
    /\ callsLeft = [c \in Callers |-> 1]
    /\ result = [c \in Callers |-> NoResult]
    /\ hint = [c \in Callers |-> ""]
    /\ req = NoRequest
    /\ collecting = FALSE
    /\ answer = <<>>
    /\ pending = NoResult
    /\ procModel = ""
    /\ procCur = NoQuestion
    /\ ptyOut = <<>>
    /\ budget = MaxEmit
    /\ feed = <<>>
    /\ quiet = FALSE
    /\ exitBy = NotEnded
    /\ ended = [c \in Callers |-> "none"]
    /\ enqCount = 0
    /\ sentSeq = 0
    /\ doneCount = 0
    /\ HeadlessIdle
    /\ PtyIdle
    /\ ParserIdle
    /\ FilterIdle

interactiveRest == <<questionCh, respCh, callerVars, req, collecting, answer, pending,
                     procModel, procCur, ptyOut, budget, logVars, obsVars, hvars,
                     pvars, wvars, tvars, fvars>>

\* startGeminiSession that starts gemini again after a failed start or an exit
startGeminiSessionAgain(ok) ==
    /\ \/ sessPc = "start"
       \/ sessPc \in {"exited", "idle"} /\ ~alive /\ spawns < 2
    /\ spawns' = spawns + 1
    /\ IF ok
       THEN /\ alive' = TRUE
            /\ sessPc' = "waitPrompt"
            /\ UNCHANGED readyCh
       ELSE /\ readyCh' = IF readyCh = <<>> THEN <<FALSE>> ELSE readyCh
            /\ sessPc' = "exited"
            /\ UNCHANGED alive
    /\ UNCHANGED <<ready, outputCh, ctorPc, promptSeen, interactiveRest>>

\* startGeminiSession: pty.Start(cmd); on an error s.readyCh <- false and return
startGeminiSession(ok) ==
    /\ sessPc = "start"
    /\ spawns' = spawns + 1
    /\ IF ok
       THEN /\ alive' = TRUE
            /\ sessPc' = "waitPrompt"
            /\ UNCHANGED readyCh
       ELSE /\ readyCh' = Append(readyCh, FALSE)
            /\ sessPc' = "exited"
            /\ UNCHANGED alive
    /\ UNCHANGED <<ready, outputCh, ctorPc, promptSeen, interactiveRest>>

\* for !promptReady: case line := <-s.outputCh
WaitPromptLine ==
    /\ sessPc = "waitPrompt"
    /\ outputCh # <<>>
    /\ outputCh' = Tail(outputCh)
    /\ sessPc' = IF HasToken(Head(outputCh), {"Type your message"}) THEN "sleep"
                 ELSE "waitPrompt"
    /\ promptSeen' = HasToken(Head(outputCh), {"Type your message"})
    /\ UNCHANGED <<ready, alive, spawns, readyCh, ctorPc, interactiveRest>>

\* for !promptReady: case <-timeout, "assuming ready anyway"
WaitPromptTimeout ==
    /\ sessPc = "waitPrompt"
    /\ sessPc' = "sleep"
    /\ UNCHANGED <<ready, alive, outputCh, lvars, interactiveRest>>

\* after the sleep: clear outputCh, s.ready = true, s.readyCh <- true, and on to
\* processQuestions
MarkReady ==
    /\ sessPc = "sleep"
    /\ outputCh' = <<>>
    /\ ready' = TRUE
    /\ readyCh' = Append(readyCh, TRUE)
    /\ sessPc' = "idle"
    /\ UNCHANGED <<alive, spawns, ctorPc, promptSeen, interactiveRest>>

\* NewGeminiService: the select on readyCh and time.After, then return s
NewGeminiService ==
    /\ ctorPc = "wait"
    /\ ctorPc' = "returned"
    /\ readyCh' = IF readyCh # <<>> THEN Tail(readyCh) ELSE readyCh
    /\ UNCHANGED <<ready, alive, sessPc, outputCh, spawns, promptSeen,
                   interactiveRest>>

\* main serves requests once NewGeminiService has returned
NextLifecycle ==
    \/ \E ok \in BOOLEAN : startGeminiSession(ok)
    \/ WaitPromptLine
    \/ WaitPromptTimeout
    \/ MarkReady
    \/ NewGeminiService
    \/ \E c \in Callers : \E m \in Models : ctorPc = "returned" /\ AskCall(c, m)
    \/ \E c \in Callers : AskSend(c) \/ AskReceive(c) \/ AskTimeout(c)
    \/ SessionStep
    \/ ProcStep

SpecLifecycle == InitLifecycle /\ [][NextLifecycle]_vars

----------------------------------------------------------------------------
(* The headless bridge: Ask under the service mutex *)

\* what gemini may have printed when it exits
Blobs == {<<>>, <<" ">>, <<"hello">>, <<" ", "hello", "\n">>, JsonOk, JsonEmpty,
          JsonRateLimited, JsonNoModel, JsonFailure, <<"status 429", " ">> \o JsonOk, <<"not found">>,
          <<"auth", " ">> \o JsonOk, JsonOk \o <<" ", "}", "\"">>,
          <<"auth", " ">> \o JsonRateLimited, JsonNoModelLimited,
          <<"not found", " ", "auth", " ">> \o JsonRateLimited}

InteractiveIdle == InitSession(0, 0, 0) /\ ready

\* a caller enters Ask and requests the mutex
HeadlessAsk(c) ==
    /\ hpc[c] = "idle"
    /\ hpc' = [hpc EXCEPT ![c] = "lock"]
    /\ UNCHANGED <<mu, cmd, hout, hresult, ivars, pvars,
                   lvars, wvars, tvars, fvars>>

\* Ask without s.mu.Lock(): the caller goes on whoever holds the mutex
LockWithoutWaiting(c) ==
    /\ hpc[c] = "lock"
    /\ mu' = c
    /\ hpc' = [hpc EXCEPT ![c] = "spawn"]
    /\ UNCHANGED <<cmd, hout, hresult, ivars, pvars,
                   lvars, wvars, tvars, fvars>>

\* s.mu.Lock()
Lock(c) ==
    /\ hpc[c] = "lock"
    /\ mu = NoCaller
    /\ mu' = c
    /\ hpc' = [hpc EXCEPT ![c] = "spawn"]
    /\ UNCHANGED <<cmd, hout, hresult, ivars, pvars,
                   lvars, wvars, tvars, fvars>>

\* cmd.CombinedOutput() starts gemini
Spawn(c) ==
    /\ hpc[c] = "spawn"
    /\ cmd' = [cmd EXCEPT ![c] = "running"]
    /\ hpc' = [hpc EXCEPT ![c] = "run"]
    /\ UNCHANGED <<mu, hout, hresult, ivars, pvars,
                   lvars, wvars, tvars, fvars>>

\* gemini exits, with or without an error, having printed blob
HeadlessExit(c, blob, failed) ==
    /\ cmd[c] = "running"
    /\ cmd' = [cmd EXCEPT ![c] = IF failed THEN "failed" ELSE "exited"]
    /\ hout' = [hout EXCEPT ![c] = blob]
    /\ UNCHANGED <<hpc, mu, hresult, ivars, pvars,
                   lvars, wvars, tvars, fvars>>

\* gemini hangs: it will neither print nor exit
HeadlessHang(c) ==
    /\ cmd[c] = "running"
    /\ cmd' = [cmd EXCEPT ![c] = "hung"]
    /\ UNCHANGED <<hpc, mu, hout, hresult, ivars, pvars,
                   lvars, wvars, tvars, fvars>>

\* cmd.CombinedOutput() returns once gemini has exited: no timeout, no context
CombinedOutput(c) ==
    /\ hpc[c] = "run"
    /\ cmd[c] \in {"exited", "failed"}
    /\ hpc' = [hpc EXCEPT ![c] = "parse"]
    /\ UNCHANGED <<mu, cmd, hout, hresult, ivars, pvars,
                   lvars, wvars, tvars, fvars>>

\* the rest of Ask: parse, classify, return; the deferred s.mu.Unlock()
HeadlessReturn(c) ==
    /\ hpc[c] = "parse"
    /\ hresult' = [hresult EXCEPT ![c] = AskOutcome(hout[c], cmd[c] = "failed")]
    /\ hpc' = [hpc EXCEPT ![c] = "done"]
    /\ mu' = IF mu = c THEN NoCaller ELSE mu
    /\ UNCHANGED <<cmd, hout, ivars, pvars,
                   lvars, wvars, tvars, fvars>>

InitHeadless == InteractiveIdle /\ ParserIdle /\ FilterIdle

NextHeadless ==
    \E c \in Callers :
        \/ HeadlessAsk(c)
        \/ Lock(c)
        \/ Spawn(c)
        \/ \E blob \in Blobs, failed \in BOOLEAN : HeadlessExit(c, blob, failed)
        \/ HeadlessHang(c)
        \/ CombinedOutput(c)
        \/ HeadlessReturn(c)

SpecHeadless == InitHeadless /\ [][NextHeadless]_vars

\* Go schedules every runnable goroutine: every step of Ask that stays possible
\* is eventually taken.  Nothing obliges gemini to exit.
FairSpecHeadless ==
    /\ SpecHeadless
    /\ \A c \in Callers :
        /\ WF_vars(Lock(c))
        /\ WF_vars(Spawn(c))
        /\ WF_vars(CombinedOutput(c))
        /\ WF_vars(HeadlessReturn(c))

----------------------------------------------------------------------------
(* The HTTP handlers in front of the headless bridge: each caller is the
   goroutine that serves one request *)

StatusOK == 200
StatusBadRequest == 400
StatusInternalServerError == 500

HttpQuestions == {<<>>, <<" ">>, <<"hello">>}

\* POST /api/ask: a body that does not bind, or a question and a model
AskRequests ==
    {HttpRequest("/api/ask", FALSE, TRUE, <<>>, "")}
    \cup {HttpRequest("/api/ask", TRUE, TRUE, q, m) : q \in HttpQuestions, m \in Models}

\* POST /v1beta/models/:model: a body that does not bind, one without
\* contents[0].parts[0], or a text
GeminiAPIRequests ==
    {HttpRequest("/v1beta/models/:model", FALSE, TRUE, <<>>, "flash"),
     HttpRequest("/v1beta/models/:model", TRUE, FALSE, <<>>, "flash")}
    \cup {HttpRequest("/v1beta/models/:model", TRUE, TRUE, q, "flash") :
              q \in HttpQuestions}

\* service.Ask(...) is called: the caller enters Ask and requests the mutex
CallAsk(c) ==
    /\ asked' = [asked EXCEPT ![c] = @ + 1]
    /\ hpc' = [hpc EXCEPT ![c] = "lock"]
    /\ UNCHANGED httpResp

Reply(c, resp) ==
    /\ httpResp' = [httpResp EXCEPT ![c] = resp]
    /\ UNCHANGED <<asked, hpc>>

\* handleAsk without the test for an empty question
handleAskUnchecked(c, r) ==
    /\ r \in AskRequests
    /\ httpReq[c] = NoHttpRequest
    /\ hpc[c] = "idle"
    /\ httpReq' = [httpReq EXCEPT ![c] = r]
    /\ IF ~r.bind
       THEN Reply(c, HttpResponse(StatusBadRequest, <<>>, "Invalid request format",
                                  NoStatus))
       ELSE CallAsk(c)
    /\ UNCHANGED <<mu, cmd, hout, hresult, ivars, pvars, lvars, tvars, fvars>>

\* handleAsk, up to the call of service.Ask
handleAsk(c, r) ==
    /\ r \in AskRequests
    /\ httpReq[c] = NoHttpRequest
    /\ hpc[c] = "idle"
    /\ httpReq' = [httpReq EXCEPT ![c] = r]
    /\ IF ~r.bind
       THEN Reply(c, HttpResponse(StatusBadRequest, <<>>, "Invalid request format",
                                  NoStatus))
       ELSE IF r.question = <<>>
       THEN Reply(c, HttpResponse(StatusBadRequest, <<>>, "Question is required",
                                  NoStatus))
       ELSE CallAsk(c)
    /\ UNCHANGED <<mu, cmd, hout, hresult, ivars, pvars, lvars, tvars, fvars>>

\* the response of handleAsk with the status left out of the error response
AskResponseWithoutStatus(ret) ==
    IF ret.err # HErrNone
    THEN HttpResponse(StatusInternalServerError, <<>>, ret.err, NoStatus)
    ELSE HttpResponse(StatusOK, ret.answer, "", ret.status)

\* the AskResponse handleAsk writes for what service.Ask returned
AskResponse(ret) ==
    IF ret.err # HErrNone
    THEN HttpResponse(StatusInternalServerError, <<>>, ret.err, ret.status)
    ELSE HttpResponse(StatusOK, ret.answer, "", ret.status)

\* handleGeminiAPI writes an error object without the status, or the
\* GeminiAPIResponse with the answer as candidates[0].content.parts[0].text
GeminiAPIResponse(ret) ==
    IF ret.err # HErrNone
    THEN HttpResponse(StatusInternalServerError, <<>>, ret.err, NoStatus)
    ELSE HttpResponse(StatusOK, ret.answer, "", ret.status)

\* handleAsk and handleGeminiAPI after service.Ask has returned
handleReturn(c) ==
    /\ httpReq[c] # NoHttpRequest
    /\ httpResp[c] = NoHttpResponse
    /\ hpc[c] = "done"
    /\ httpResp' = [httpResp EXCEPT ![c] =
                        IF httpReq[c].route = "/api/ask" THEN AskResponse(hresult[c])
                        ELSE GeminiAPIResponse(hresult[c])]
    /\ UNCHANGED <<httpReq, asked, hvars, ivars, pvars, lvars, tvars, fvars>>

\* handleGeminiAPI, up to the call of service.Ask
handleGeminiAPI(c, r) ==
    /\ r \in GeminiAPIRequests
    /\ httpReq[c] = NoHttpRequest
    /\ hpc[c] = "idle"
    /\ httpReq' = [httpReq EXCEPT ![c] = r]
    /\ IF ~r.bind
       THEN Reply(c, HttpResponse(StatusBadRequest, <<>>, "Invalid request body",
                                  NoStatus))
       ELSE IF ~r.parts
       THEN Reply(c, HttpResponse(StatusBadRequest, <<>>,
                                  "contents[0].parts[0].text is required", NoStatus))
       ELSE IF r.question = <<>>
       THEN Reply(c, HttpResponse(StatusBadRequest, <<>>,
                                  "text content cannot be empty", NoStatus))
       ELSE CallAsk(c)
    /\ UNCHANGED <<mu, cmd, hout, hresult, ivars, pvars, lvars, tvars, fvars>>

NextHandlers ==
    \E c \in Callers :
        \/ \E r \in AskRequests : handleAsk(c, r)
        \/ \E r \in GeminiAPIRequests : handleGeminiAPI(c, r)
        \/ Lock(c)
        \/ Spawn(c)
        \/ \E blob \in Blobs, failed \in BOOLEAN : HeadlessExit(c, blob, failed)
        \/ HeadlessHang(c)
        \/ CombinedOutput(c)
        \/ HeadlessReturn(c)
        \/ handleReturn(c)

SpecHandlers == InitHeadless /\ [][NextHandlers]_vars

----------------------------------------------------------------------------
(* The parsing of one captured blob, function by function as Ask calls them *)

\* the bracketed error fragment gemini logs before a retry
ErrorFragment == <<"[">> \o JsonNoCapacity \o <<"]">>

\* diagnostic text before the final object, as in TestParseGeminiOutputWith429
TestPrefix ==
    <<"Attempt 1 failed with", " ", "status 429", ".", " ">> \o ErrorFragment \o <<" ">>

PrefixTokens == {"{", "}", "\"", "a", "status 429", "\"code\": 429",
                 "Too Many Requests", "rateLimitExceeded", "RESOURCE_EXHAUSTED"}

SuffixTokens == {"{", "}", "\"", " ", "a"}

Texts(tokens, n) == UNION {[1..k -> tokens] : k \in 0..n}

Prefixes == Texts(PrefixTokens, MaxPrefixLen) \cup {TestPrefix}

Suffixes == Texts(SuffixTokens, MaxSuffixLen)

ParseObjects == {<<>>, JsonOk, JsonOkStats, JsonBraceText, JsonQuoted, JsonNewline,
                 JsonEmptyObject, JsonEmpty, JsonRateLimited, JsonNoModel, JsonFailure}

\* output, err := cmd.CombinedOutput(); outputStr := string(output)
Blob == prefix \o object \o suffix

NoResponse == [ok |-> FALSE, value |-> GeminiResponse(<<>>, NoError)]

\* the responses detectUpstreamStatus may be handed: nil, or a parsed one
Responses == {NoResponse} \cup {[ok |-> TRUE, value |-> k.value] : k \in KnownJSON}

InitParser ==
    /\ InteractiveIdle
    /\ FilterIdle
    /\ ppc = "extract"
    /\ prefix \in Prefixes
    /\ object \in ParseObjects
    /\ suffix \in Suffixes
    /\ extracted = [json |-> <<>>, found |-> FALSE]
    /\ parseResult = NoResponse
    /\ given = NoResponse
    /\ upstream = NoStatus
    /\ outcome = [failed \in BOOLEAN |-> AskReturn(<<>>, NoStatus, "pending")]

ExtractStep ==
    /\ ppc = "extract"
    /\ extracted' = extractLastJSONObject(Blob)
    /\ ppc' = "parse"
    /\ UNCHANGED <<prefix, object, suffix, parseResult, given, upstream, outcome,
                   ivars, hvars,
                   lvars, wvars, tvars, fvars>>

ParseStep ==
    /\ ppc = "parse"
    /\ parseResult' = parseGeminiOutput(Blob)
    /\ ppc' = "detect"
    /\ UNCHANGED <<prefix, object, suffix, extracted, given, upstream, outcome,
                   ivars, hvars,
                   lvars, wvars, tvars, fvars>>

\* detectUpstreamStatus(outputStr, nil), detectUpstreamStatus(outputStr, &response)
DetectStep ==
    /\ ppc = "detect"
    /\ \E r \in Responses \cup {parseResult} :
          /\ given' = r
          /\ upstream' = detectUpstreamStatus(Blob, r.ok, r.value)
    /\ ppc' = "ask"
    /\ UNCHANGED <<prefix, object, suffix, extracted, parseResult, outcome,
                   ivars, hvars,
                   lvars, wvars, tvars, fvars>>

\* what Ask returns for this blob when gemini exited with and without an error
AskStep ==
    /\ ppc = "ask"
    /\ outcome' = [failed \in BOOLEAN |-> AskOutcome(Blob, failed)]
    /\ ppc' = "done"
    /\ UNCHANGED <<prefix, object, suffix, extracted, parseResult, given, upstream,
                   ivars, hvars,
                   lvars, wvars, tvars, fvars>>

NextParser == ExtractStep \/ ParseStep \/ DetectStep \/ AskStep

SpecParser == InitParser /\ [][NextParser]_vars

----------------------------------------------------------------------------
(* The line filter alone: stripANSI and then shouldSkipLine, as readOutput
   and askQuestion apply them to a line, applied to a raw line and then to
   the clean line it gave *)

MaxRawLen == 6

\* the characters raw lines are made of: the escape character, what may
\* follow it, a letter, a space and the prompt indicator
RawTokens == {"ESC", "[", "m", " ", ">"}

RawLines == Texts(RawTokens, MaxRawLen)

filterLine(line) == Filtered(stripANSI(line), shouldSkipLine(stripANSI(line)))

InitFilter ==
    /\ InteractiveIdle
    /\ ParserIdle
    /\ fpc = "once"
    /\ raw \in RawLines
    /\ once = Filtered(<<>>, FALSE)
    /\ twice = Filtered(<<>>, FALSE)

FilterOnce ==
    /\ fpc = "once"
    /\ once' = filterLine(raw)
    /\ fpc' = "twice"
    /\ UNCHANGED <<raw, twice, ivars, hvars, pvars, lvars, wvars, tvars>>

FilterTwice ==
    /\ fpc = "twice"
    /\ twice' = filterLine(once.clean)
    /\ fpc' = "done"
    /\ UNCHANGED <<raw, once, ivars, hvars, pvars, lvars, wvars, tvars>>

NextFilter == FilterOnce \/ FilterTwice

SpecFilter == InitFilter /\ [][NextFilter]_vars

----------------------------------------------------------------------------
(* The bridge that starts gemini on a pseudo-terminal for every call: Ask, its
   reader goroutine and the gemini process of the call *)

\* gemini prints at most MaxPtyLines lines besides its banner
MaxPtyLines == 2

\* lineCount > 100
LineLimit == 100

ErrStart == "failed to start gemini"
ErrPtyAuth == "authentication required: gemini CLI is not authenticated in container"
ErrScanner == "scanner error"
ErrNoClear == "no clear response from gemini. Raw output"

\* the tokens the reader's skip condition looks for with strings.Contains
PtySkipPhrases ==
    (Decorations \ {"<full-block x3>"})
        \cup (BannerPhrases \ {"customize your interactions"})
        \cup StatusPhrases

\* the reader's skip condition and its empty-line check
ptySkipLine(cleanLine) ==
    \/ HasToken(cleanLine, PtySkipPhrases)
    \/ HasPrefix(TrimSpace(cleanLine), <<"~">>)
    \/ HasPrefix(TrimSpace(cleanLine), <<">">>)
    \/ TrimSpace(cleanLine) = <<>>

\* the lines gemini prints during a call
PtyLines == {BannerLine, PromptLine, AuthMarker, <<"Hello", " ", "there.">>,
             <<"a", " ", ">", " ", "b">>}

ptyRest == <<ivars, hvars, pvars, lvars, wvars, fvars>>

\* a return of Ask after pty.Start succeeded: the deferred ptmx.Close() and
\* s.mu.Unlock() run, and nothing else
PtyReturn(c, res) ==
    /\ tresult' = [tresult EXCEPT ![c] = res]
    /\ tsig' = [tsig EXCEPT ![c] = Append(@, "close")]
    /\ tpc' = [tpc EXCEPT ![c] = "done"]
    /\ tmu' = NoCaller

\* Ask, from s.mu.Lock() to the start of the reader goroutine
PtyAsk(c, ok) ==
    /\ tpc[c] \in {"idle", "lock"}
    /\ tmu = NoCaller
    /\ IF ok
       THEN /\ tmu' = c
            /\ tproc' = [tproc EXCEPT ![c] = "running"]
            /\ rpc' = [rpc EXCEPT ![c] = "reading"]
            /\ tpc' = [tpc EXCEPT ![c] = "sleep"]
            /\ UNCHANGED tresult
       ELSE /\ tresult' = [tresult EXCEPT ![c] = questionResponse(<<>>, ErrStart)]
            /\ tpc' = [tpc EXCEPT ![c] = "done"]
            /\ UNCHANGED <<tmu, tproc, rpc>>
    /\ UNCHANGED <<tsig, tlines, tbuf, ptyRest>>

\* the reader goroutine: one pass of its loop over a line gemini printed
PtyReadLine(c, line) ==
    /\ rpc[c] = "reading"
    /\ tproc[c] = "running"
    /\ tpc[c] # "done"
    /\ tlines[c] % LineLimit < MaxPtyLines
    /\ tlines' = [tlines EXCEPT ![c] = @ + 1]
    /\ LET cleanLine == stripANSI(line) IN
       IF Contains(cleanLine, AuthMarker)
       THEN /\ rpc' = [rpc EXCEPT ![c] = "sendAuth"]
            /\ UNCHANGED tbuf
       ELSE IF ptySkipLine(cleanLine)
       THEN UNCHANGED <<rpc, tbuf>>
       ELSE /\ tbuf' = [tbuf EXCEPT ![c] = @ \o cleanLine \o <<"\n">>]
            /\ rpc' = [rpc EXCEPT ![c] =
                          IF /\ tlines[c] + 1 > LineLimit
                             /\ HasToken(cleanLine, {">", "~"})
                          THEN "sendNil" ELSE "reading"]
    /\ UNCHANGED <<tpc, tmu, tproc, tsig, tresult, ptyRest>>

\* the reader goroutine over LineLimit lines of banner and redrawn boxes, all
\* of them skipped
PtyReadBanner(c) ==
    /\ rpc[c] = "reading"
    /\ tproc[c] = "running"
    /\ tpc[c] # "done"
    /\ tlines[c] < LineLimit
    /\ ptySkipLine(stripANSI(BannerLine))
    /\ tlines' = [tlines EXCEPT ![c] = @ + LineLimit]
    /\ UNCHANGED <<tpc, tmu, rpc, tproc, tsig, tbuf, tresult, ptyRest>>

\* scanner.Scan() returns false: gemini is gone, or Ask has returned and its
\* deferred ptmx.Close() has closed the file under the scanner (an error)
PtyReadEnd(c, failed) ==
    /\ rpc[c] = "reading"
    /\ tproc[c] # "running" \/ tpc[c] = "done"
    /\ tpc[c] = "done" => failed
    /\ rpc' = [rpc EXCEPT ![c] = IF failed THEN "sendScanner" ELSE "sendNil"]
    /\ UNCHANGED <<tpc, tmu, tproc, tsig, tlines, tbuf, tresult, ptyRest>>

\* io.WriteString(ptmx, question+"\n") after the sleep; the write can fail once
\* gemini is gone
PtyWrite(c, ok) ==
    /\ tpc[c] = "sleep"
    /\ IF ok
       THEN /\ tpc' = [tpc EXCEPT ![c] = "wait"]
            /\ UNCHANGED <<tmu, tsig, tresult>>
       ELSE /\ tproc[c] # "running"
            /\ PtyReturn(c, questionResponse(<<>>, ErrWrite))
    /\ UNCHANGED <<rpc, tproc, tlines, tbuf, ptyRest>>

\* case err := <-done: the reader's send on the unbuffered channel meets Ask
PtyDone(c) ==
    /\ tpc[c] = "wait"
    /\ rpc[c] \in {"sendNil", "sendAuth", "sendScanner"}
    /\ rpc' = [rpc EXCEPT ![c] = "returned"]
    /\ IF rpc[c] = "sendNil"
       THEN /\ tpc' = [tpc EXCEPT ![c] = "interrupt"]
            /\ UNCHANGED <<tmu, tsig, tresult>>
       ELSE PtyReturn(c, questionResponse(<<>>,
                IF rpc[c] = "sendAuth" THEN ErrPtyAuth ELSE ErrScanner))
    /\ UNCHANGED <<tproc, tlines, tbuf, ptyRest>>

\* case <-time.After(90 * time.Second)
PtyTimeout(c) ==
    /\ tpc[c] = "wait"
    /\ PtyReturn(c, IF Len(tbuf[c]) > 0
                    THEN questionResponse(TrimSpace(tbuf[c]), ErrNone)
                    ELSE questionResponse(<<>>, ErrExchangeTimeout))
    /\ UNCHANGED <<rpc, tproc, tlines, tbuf, ptyRest>>

\* ptmx.Write([]byte{3}) and the sleep after it
PtyInterrupt(c) ==
    /\ tpc[c] = "interrupt"
    /\ tsig' = [tsig EXCEPT ![c] = Append(@, "interrupt")]
    /\ tpc' = [tpc EXCEPT ![c] = "grace"]
    /\ UNCHANGED <<tmu, rpc, tproc, tlines, tbuf, tresult, ptyRest>>

\* the wait for cmd.Wait() or two seconds, cmd.Process.Kill() after them, and
\* the return of the answer
PtyGrace(c) ==
    /\ tpc[c] = "grace"
    /\ tproc' = [tproc EXCEPT ![c] = IF @ = "running" THEN "killed" ELSE @]
    /\ tsig' = [tsig EXCEPT ![c] =
                   (IF tproc[c] = "running" THEN Append(@, "kill") ELSE @)
                       \o <<"close">>]
    /\ tresult' = [tresult EXCEPT ![c] =
                      IF TrimSpace(tbuf[c]) # <<>>
                      THEN questionResponse(TrimSpace(tbuf[c]), ErrNone)
                      ELSE IF tlines[c] > 0
                      THEN questionResponse(<<>>, ErrNoClear)
                      ELSE questionResponse(<<>>, ErrNoResponse)]
    /\ tpc' = [tpc EXCEPT ![c] = "done"]
    /\ tmu' = NoCaller
    /\ UNCHANGED <<rpc, tlines, tbuf, ptyRest>>

\* gemini exits by itself: a crash, or its reaction to Ctrl+C or to the hangup
\* of its terminal
PtyProcExit(c) ==
    /\ tproc[c] = "running"
    /\ tproc' = [tproc EXCEPT ![c] = "exited"]
    /\ UNCHANGED <<tpc, tmu, rpc, tsig, tlines, tbuf, tresult, ptyRest>>

NextPty ==
    \E c \in Callers :
        \/ \E ok \in BOOLEAN : PtyAsk(c, ok)
        \/ \E line \in PtyLines : PtyReadLine(c, line)
        \/ PtyReadBanner(c)
        \/ \E failed \in BOOLEAN : PtyReadEnd(c, failed)
        \/ \E ok \in BOOLEAN : PtyWrite(c, ok)
        \/ PtyDone(c)
        \/ PtyTimeout(c)
        \/ PtyInterrupt(c)
        \/ PtyGrace(c)
        \/ PtyProcExit(c)

SpecPty == InitHeadless /\ [][NextPty]_vars

\* AskWithEnv of the first version of this bridge: s.mu.Lock(), the environment
\* variables, and return s.Ask(question, model), which begins with s.mu.Lock()
\* as every Ask does; tpc "lock" is a goroutine inside Ask waiting for the mutex
PtyAskWithEnv(c) ==
    /\ tpc[c] = "idle"
    /\ tmu = NoCaller
    /\ tmu' = c
    /\ tpc' = [tpc EXCEPT ![c] = "lock"]
    /\ UNCHANGED <<rpc, tproc, tsig, tlines, tbuf, tresult, ptyRest>>

\* the first version: callers use Ask or AskWithEnv
NextPtyFirst ==
    \/ NextPty
    \/ \E c \in Callers : PtyAskWithEnv(c)

SpecPtyFirst == InitHeadless /\ [][NextPtyFirst]_vars

----------------------------------------------------------------------------
(* The transcript collector alone: askQuestion in its collection loop for one
   request, with every line of a feed already in outputCh *)

HelloLine == <<"Hello", " ", "there.">>

\* the auth marker inside a box, and after the question text
BoxedAuthLine == <<"<box-side>", " ", "Waiting for auth">>
EchoedAuthLine == <<"Hello", " ", "Waiting for auth">>

FeedLines == {BannerLine, <<>>, BlankLine, stripANSI(PromptLine), <<"~", "/app">>,
              HelloLine, <<" ", "Bye">>, AuthMarker, <<"1", ".", " ", "item">>,
              BoxedAuthLine, EchoedAuthLine}

FeedQuestions == {<<"Hello">>, <<"What", "?">>}

Feeds == UNION {[1..n -> FeedLines] : n \in 0..FeedLen}

InitCollector ==
    /\ ready = TRUE
    /\ alive = TRUE
    /\ sessPc = "collect"
    /\ questionCh = <<>>
    /\ feed \in Feeds
    /\ outputCh = feed
    /\ respCh = [id \in ReqIds |-> <<>>]
    /\ pc = [c \in Callers |-> IF c = 1 THEN "wait" ELSE "idle"]
    /\ callNo = [c \in Callers |-> IF c = 1 THEN 1 ELSE 0]
    /\ callsLeft = [c \in Callers |-> 0]
    /\ result = [c \in Callers |-> NoResult]
    /\ hint = [c \in Callers |-> ""]
    /\ \E q \in FeedQuestions :
          req = [id |-> <<1, 1>>, question |-> q, model |-> "", seq |-> 1]
    /\ collecting = FALSE
    /\ answer = <<>>
    /\ pending = NoResult
    /\ procModel = ""
    /\ procCur = 1
    /\ ptyOut = <<>>
    /\ budget = 0
    /\ quiet = FALSE
    /\ exitBy = NotEnded
    /\ ended = [c \in Callers |-> "none"]
    /\ enqCount = 1
    /\ sentSeq = 1
    /\ doneCount = 0
    /\ spawns = 1
    /\ readyCh = <<>>
    /\ ctorPc = "returned"
    /\ promptSeen = ready
    /\ HeadlessIdle
    /\ PtyIdle
    /\ ParserIdle
    /\ FilterIdle

NextCollector ==
    \/ AskQuestionLine
    \/ AskQuestionTimeout
    \/ QuietElapse
    \/ Respond
    \/ AskReceive(1)

SpecCollector == InitCollector /\ [][NextCollector]_vars

----------------------------------------------------------------------------
(* Properties *)

InAsk(c) == pc[c] \in {"send", "wait"}

Tokens(s) == {s[i] : i \in 1..Len(s)}

\* words only gemini's lines for another caller's question carry
ForeignWords(c) == {AnswerWords[d] : d \in Callers \ {c}}
                   \cup {QuestionWords[d] : d \in Callers \ {c}}

\* C2: the answer an Ask call of the interactive bridge returns contains only
\* lines gemini printed for that call's own question, never lines printed for
\* the question of another request.
C2_AnswerHasOwnLinesOnly ==
    \A c \in Callers :
        (pc[c] = "returned" /\ result[c].err = ErrNone)
            => Tokens(result[c].answer) \cap ForeignWords(c) = {}

\* C3: under fair scheduling every Ask call of the interactive bridge returns
\* one outcome to its caller (a call in progress leads to a returned call
\* whose result is an answer or an error), and no response channel ever
\* holds a second response.
C3_EveryAskReturnsOnce ==
    /\ \A c \in Callers :
        InAsk(c) ~> (pc[c] = "returned" /\ result[c] # NoResult)
    /\ [](\A id \in ReqIds : Len(respCh[id]) <= 1)

\* a caller that was blocked behind a full questionCh has returned from that
\* call with the outcome of its exchange
C3_Witness ==
    \E c \in Callers :
        /\ pc[c] = "returned"
        /\ callNo[c] = BacklogCalls
        /\ enqCount > QuestionChCap + 1
        /\ result[c].err = ErrExchangeTimeout

\* C5: a caller inside Ask is never blocked at a point its timeout does not
\* cover: either its timer is running or its send on questionCh can proceed,
\* also when questionCh is full.
C5_AskWaitIsBoundedByItsTimeout ==
    \A c \in Callers :
        InAsk(c) => (AskTimerArmed(c) \/ Len(questionCh) < QuestionChCap)

\* C6: questions are written to the session in the order their requests
\* entered questionCh: the question being answered belongs to the oldest
\* request not yet responded to, every earlier request has had its response,
\* and the requests still queued are younger and in order.
C6_ServedInQueueOrder ==
    /\ sentSeq <= doneCount + 1
    /\ sessPc = "collect" => (sentSeq = req.seq /\ doneCount = req.seq - 1)
    /\ \A i \in 1..Len(questionCh) :
          questionCh[i].seq = doneCount + i + (IF sessPc = "idle" THEN 0 ELSE 1)

\* the second of two requests that were queued together has its question written
C6_Witness ==
    /\ sessPc = "collect"
    /\ req.seq = 2
    /\ doneCount = 1
    /\ \E c \in Callers : pc[c] = "wait" /\ MyReq(c) = req.id

\* C7: when the exchange timeout ends an exchange in which answer lines were
\* collected, the caller of Ask gets the collected text with no error.
C7_CallerGetsSalvagedAnswer ==
    \A c \in Callers :
        (pc[c] = "returned" /\ ended[c] = "timeout-partial")
            => (result[c].err = ErrNone /\ result[c].answer # <<>>)

\* a caller's subprocess exchange: from the spawn to the end of parsing
InExchange(c) == hpc[c] \in {"run", "parse"}

\* C1: in the headless bridge at most one Ask call at a time is between
\* spawning its subprocess and finishing the parsing of its output, at most
\* one subprocess exists, and the caller in that span holds the mutex.
C1_OneExchangeUnderMutex ==
    /\ \A c, d \in Callers : (InExchange(c) /\ InExchange(d)) => c = d
    /\ \A c \in Callers : InExchange(c) => mu = c
    /\ \A c, d \in Callers : (cmd[c] = "running" /\ cmd[d] = "running") => c = d

\* one caller parses its subprocess's output while another waits for the mutex
C1_Witness ==
    \E c, d \in Callers :
        /\ c # d
        /\ hpc[c] = "parse"
        /\ hout[c] # <<>>
        /\ hpc[d] = "lock"

\* C4: in the headless bridge, when the spawned subprocess hangs (never exits,
\* prints nothing), Ask eventually returns a timeout error to its caller.
C4_HungSubprocessEndsInTimeout ==
    \A c \in Callers :
        (cmd[c] = "hung") ~> (hpc[c] = "done" /\ hresult[c].err = "timeout")

\* C28: a request with an empty model hint is answered with the tool's own
\* model choice: while its question is being answered, gemini is on no model
\* that the hint of an earlier request switched it to.
C28_EmptyHintUsesOwnChoice ==
    (sessPc = "collect" /\ req.model = "") => procModel = ""

RECURSIVE SplitLines(_)
\* the lines of a text: the runs of tokens between its newlines
SplitLines(text) ==
    IF \E i \in 1..Len(text) : text[i] = "\n"
    THEN LET i == CHOOSE i \in 1..Len(text) :
                      text[i] = "\n" /\ \A j \in 1..(i - 1) : text[j] # "\n"
         IN <<SubSeq(text, 1, i - 1)>> \o SplitLines(SubSeq(text, i + 1, Len(text)))
    ELSE <<text>>

\* what askQuestion returns for the request in req, when it is an answer
ReturnedAnswers ==
    IF sessPc = "respond" /\ pending.err = ErrNone THEN {pending.answer} ELSE {}

\* C33: every line of a returned answer is a line for which shouldSkipLine and
\* isPromptLine are false, whose trimmed text is not empty and which does not
\* contain the question of the request; every prompt line of the feed is
\* classified as noise as well.
C33_AnswerLinesAreClean ==
    /\ \A a \in ReturnedAnswers :
          \A i \in 1..Len(SplitLines(a)) :
              LET line == SplitLines(a)[i] IN
              /\ ~shouldSkipLine(line)
              /\ ~isPromptLine(line)
              /\ TrimSpace(line) # <<>>
              /\ ~Contains(line, req.question)
    /\ \A i \in 1..Len(feed) : isPromptLine(feed[i]) => shouldSkipLine(feed[i])

C33_Witness ==
    /\ sessPc = "respond"
    /\ pending.err = ErrNone
    /\ Len(SplitLines(pending.answer)) >= 2
    /\ \E i \in 1..Len(feed) :
          /\ Contains(feed[i], req.question)
          /\ ~shouldSkipLine(feed[i])
          /\ ~isPromptLine(feed[i])

\* C39: a question is written to the session only while its caller is still
\* waiting for the reply: the request of an Ask call that has already
\* returned with its timeout is never written to gemini afterwards.
C39_WrittenOnlyWhileCallerWaits ==
    [][sentSeq' # sentSeq => ~Abandoned(req.id)]_vars

\* the session goroutine is serving the request in req
Serving == sessPc \in {"askQuestion", "modelSleep", "writeQuestion", "collect", "respond"}

\* C40: the consumer goroutine never blocks when it delivers a response, also
\* when the caller has timed out and no longer listens: the channel of the
\* request has room at that moment.  It sends one response for each request
\* it has taken from the queue: while it serves the request of rank n it has
\* delivered n - 1 responses, no response channel ever holds more than one
\* response, and a caller finds a response only once its request was served.
C40_ConsumerNeverBlocks ==
    /\ sessPc = "respond" => Len(respCh[req.id]) < RespChCap
    /\ Serving => doneCount = req.seq - 1
    /\ \A id \in ReqIds : Len(respCh[id]) <= 1
    /\ \A id \in ReqIds : (Serving /\ req.id = id) => respCh[id] = <<>>

\* the consumer is about to deliver the response of a second request, whose
\* caller has timed out
C40_Witness ==
    /\ sessPc = "respond"
    /\ Abandoned(req.id)
    /\ result[req.id[1]].err = ErrAskTimeout
    /\ doneCount = 1

----------------------------------------------------------------------------
(* Properties of the session's lifecycle *)

\* pty.Start failed: startGeminiSession has returned for good
SpawnFailed == sessPc = "exited"

\* gemini was started and has exited since
Crashed == spawns >= 1 /\ ~SpawnFailed /\ ~alive

\* C24: over the lifetime of a GeminiService of the interactive bridge gemini
\* is started at most once: pty.Start is called once, before anything else, and
\* no Ask call, timeout, error or exit of gemini leads to a second start; a
\* running gemini is the one that start created.
C24_SpawnedAtMostOnce ==
    /\ spawns <= 1
    /\ spawns = 0 <=> sessPc = "start"
    /\ alive => spawns = 1

\* gemini has exited and an Ask call has failed on the dead session, with the
\* one start only
C24_Witness ==
    /\ Crashed
    /\ spawns = 1
    /\ \E c \in Callers : pc[c] = "returned" /\ result[c].err = ErrWrite
    /\ \E c \in Callers : pc[c] = "returned" /\ result[c].err = ErrAskTimeout

\* C25: once gemini has exited, the ready flag is false and every Ask call
\* made from then on returns the error "gemini session not ready" at once,
\* without a request being put on questionCh.
C25_ExitedSessionIsUnready ==
    [][Crashed =>
          /\ ~ready
          /\ \A c \in Callers :
                callNo'[c] # callNo[c] =>
                    /\ pc'[c] = "returned"
                    /\ result'[c] = questionResponse(<<>>, ErrNotReady)]_vars

\* C30: if gemini cannot be started, the ready flag never becomes true, the
\* constructor can still return (the start failure is on readyCh until it
\* does), the start is not tried again, and every Ask call returns the error
\* "gemini session not ready" at once: no caller is ever inside Ask and no
\* request is ever put on questionCh.
C30_SpawnFailureLeavesUnready ==
    SpawnFailed =>
        /\ ~ready
        /\ ~alive
        /\ spawns = 1
        /\ ctorPc = "wait" => readyCh = <<FALSE>>
        /\ questionCh = <<>>
        /\ enqCount = 0
        /\ \A c \in Callers :
              /\ pc[c] \in {"idle", "returned"}
              /\ pc[c] = "returned" => result[c] = questionResponse(<<>>, ErrNotReady)

\* the start failed, the constructor returned and every caller's Ask was refused
C30_Witness ==
    /\ SpawnFailed
    /\ ctorPc = "returned"
    /\ \A c \in Callers : pc[c] = "returned" /\ result[c].err = ErrNotReady

----------------------------------------------------------------------------
(* Properties of the transcript collector *)

\* the lines askQuestion has received so far
Consumed == Len(feed) - Len(outputCh)

IsBlank(line) == TrimSpace(line) = <<>>

\* non-noise, non-empty
IsText(line) == ~isPromptLine(line) /\ ~shouldSkipLine(line) /\ ~IsBlank(line)

\* text that is neither taken for the echo of the question nor the auth marker
IsPlain(line, question) ==
    IsText(line) /\ ~Contains(line, question) /\ ~Contains(line, AuthMarker)

TextLines == {l \in FeedLines : IsText(l)}

PlainLines(question) == {l \in FeedLines : IsPlain(l, question)}

\* noise lines, then lines of text possibly separated by blank lines, then a prompt
Shape(f, text) ==
    /\ Len(f) >= 2
    /\ isPromptLine(f[Len(f)])
    /\ \E k \in 1..(Len(f) - 1) :
          /\ \A i \in 1..(k - 1) : shouldSkipLine(f[i])
          /\ f[k] \in text
          /\ \A i \in (k + 1)..(Len(f) - 1) : f[i] \in text \/ IsBlank(f[i])

RECURSIVE JoinLines(_)
JoinLines(lines) ==
    IF lines = <<>> THEN <<>>
    ELSE IF Len(lines) = 1 THEN lines[1]
    ELSE lines[1] \o <<"\n">> \o JoinLines(Tail(lines))

InText(line) == line \in TextLines

\* the lines of text of a feed joined by newlines, trimmed
Expected(f) == TrimSpace(JoinLines(SelectSeq(f, InText)))

CollectsUpToPrompt(text) ==
    Shape(feed, text) =>
        /\ sessPc = "collect" =>
              /\ Consumed < Len(feed)
              /\ collecting <=> \E i \in 1..Consumed : feed[i] \in text
        /\ (sessPc = "respond" /\ exitBy.kind = "line") =>
              /\ Consumed = Len(feed)
              /\ pending = questionResponse(Expected(feed), ErrNone)

\* C8 as stated: on noise lines, then non-noise non-empty lines possibly
\* separated by blank lines, then a prompt line, the collector starts
\* collecting at the first non-noise non-empty line, finishes at the prompt
\* line and returns the collected lines joined by newlines and trimmed.
C8_CollectsEveryTextLine == CollectsUpToPrompt(TextLines)

\* C8 amended: the same, for non-noise non-empty lines that contain neither
\* the question text nor the "Waiting for auth" marker.
C8_CollectsPlainLines ==
    sessPc \in {"collect", "respond"} => CollectsUpToPrompt(PlainLines(req.question))

\* the feed [banner, "Hello there.", "", prompt] has been answered "Hello there."
C8_Witness ==
    /\ feed = <<BannerLine, HelloLine, <<>>, stripANSI(PromptLine)>>
    /\ sessPc = "respond"
    /\ exitBy.kind = "line"
    /\ pending = questionResponse(HelloLine, ErrNone)

C10_NoCollectionIsNoResponse ==
    (sessPc = "respond" /\ exitBy.kind \in {"line", "timeout"} /\ ~collecting)
        => pending = questionResponse(<<>>, ErrNoResponse)

\* C10 amended: an exchange that ends in the collector without collection
\* having started ends with an error and no answer: the exchange timeout
\* error when the overall timeout ends it, the authentication error when a
\* "Waiting for auth" line ends it; "no response from gemini" is never the
\* outcome of an exchange.
C10_NoCollectionIsTimeoutOrAuth ==
    /\ (sessPc = "respond" /\ exitBy.kind \in {"line", "timeout"} /\ ~collecting)
          => /\ pending.answer = <<>>
             /\ exitBy.kind = "timeout" => pending.err = ErrExchangeTimeout
             /\ exitBy.kind = "line" =>
                   (pending.err = ErrAuth /\ Contains(exitBy.line, AuthMarker))
    /\ pending.err # ErrNoResponse

\* every line of a feed with no text was received, then the timeout fired
C10_Witness ==
    /\ sessPc = "respond"
    /\ exitBy = ByTimeout
    /\ ~collecting
    /\ feed # <<>>
    /\ outputCh = <<>>
    /\ pending = questionResponse(<<>>, ErrExchangeTimeout)

\* C11: whenever a line containing "Waiting for auth" has been received in an
\* exchange, whatever else the line contains, the exchange has ended at that
\* line with the authentication error and no answer.
C11_AuthLineEndsExchange ==
    (sessPc \in {"collect", "respond"}
     /\ \E i \in 1..Consumed : Contains(feed[i], AuthMarker))
        => /\ sessPc = "respond"
           /\ exitBy.kind = "line"
           /\ Contains(exitBy.line, AuthMarker)
           /\ pending = questionResponse(<<>>, ErrAuth)

----------------------------------------------------------------------------
(* Properties of the output parsing *)

Extracted == ppc \in {"parse", "detect", "ask", "done"}

Detected == ppc \in {"ask", "done"}

\* C12: for every valid JSON object J, also one whose string values hold
\* braces or backslash-escaped quotes, and every prefix P,
\* extractLastJSONObject(P + J) returns found = true and exactly J.
C12_ExtractRoundTrip ==
    (Extracted /\ object # <<>> /\ suffix = <<>>)
        => extracted = [json |-> object, found |-> TRUE]

\* diagnostic text that mentions "status 429" and carries the bracketed error
DiagnosticPrefixes == {TestPrefix}

\* C13: for a blob of diagnostic text that mentions "status 429" and carries a
\* bracketed JSON error fragment, followed by a final success object,
\* parseGeminiOutput returns the final, outermost object with its response,
\* and detectUpstreamStatus on the blob and that response has HTTPStatus 429.
C13_FinalObjectAnd429 ==
    (prefix \in DiagnosticPrefixes /\ object \in {JsonOk, JsonOkStats} /\ suffix = <<>>)
        => /\ Extracted => extracted = [json |-> object, found |-> TRUE]
           /\ ppc \in {"detect", "ask", "done"} =>
                 parseResult = [ok |-> TRUE, value |-> GeminiResponse(<<"ok">>, NoError)]
           /\ (Detected /\ given = parseResult) =>
                 upstream.HTTPStatus = StatusTooManyRequests

\* the blob of TestParseGeminiOutputWith429 has been parsed and classified
C13_Witness ==
    /\ ppc = "done"
    /\ prefix = TestPrefix
    /\ object = JsonOkStats
    /\ suffix = <<>>
    /\ extracted.json = JsonOkStats
    /\ given = parseResult
    /\ upstream.HTTPStatus = 429

\* C14: when a blob holds a JSON object (here one without escapes) followed by
\* text that is not JSON, also text with a stray brace or quote,
\* extractLastJSONObject returns found = true and that object.
C14_ExtractLastObjectBeforeText ==
    (Extracted /\ object # <<>> /\ ~HasToken(object, {"\\"}))
        => extracted = [json |-> object, found |-> TRUE]

\* braces opened minus braces closed in b[i..k]
Depth(b, i, k) ==
    Cardinality({n \in i..k : b[n] = "{"}) - Cardinality({n \in i..k : b[n] = "}"})

\* b[i..j] is a brace-balanced object: its first brace is closed by its last
BalancedObject(b, i, j) ==
    /\ b[i] = "{"
    /\ b[j] = "}"
    /\ \A k \in i..(j - 1) : Depth(b, i, k) >= 1
    /\ Depth(b, i, j) = 0

HasBalancedObject(b) ==
    \E i \in 1..Len(b) : \E j \in (i + 1)..Len(b) : BalancedObject(b, i, j)

\* C15: for every blob that contains no brace-balanced object
\* extractLastJSONObject returns found = false and the empty string.
C15_NoObjectNotFound ==
    (Extracted /\ ~HasBalancedObject(Blob))
        => extracted = [json |-> <<>>, found |-> FALSE]

\* a blob of braces and a quote without a balanced object was scanned
C15_Witness ==
    /\ ppc = "done"
    /\ prefix = <<"}", "\"">>
    /\ object = <<>>
    /\ suffix = <<"{">>
    /\ ~extracted.found

\* the response handed to detectUpstreamStatus carries a non-zero error code
HasErrorCode(r) == r.ok /\ r.value.Error # NoError /\ r.value.Error.Code # 0

\* the blob holds one of the rate-limit phrasings
RateLimited(b) ==
    \E i \in 1..Len(b) :
        b[i] \in {"\"code\": 429", "status 429", "Too Many Requests",
                  "rateLimitExceeded", "RESOURCE_EXHAUSTED"}

\* C16: when the parsed response carries an error with a non-zero code, the
\* status has that code as HTTPStatus, the error type as Code and the error
\* message as Message, whatever rate-limit phrasing the blob holds.
C16_ErrorCodeFirst ==
    (Detected /\ HasErrorCode(given))
        => upstream = [HTTPStatus |-> given.value.Error.Code,
                       Code |-> given.value.Error.Type,
                       Message |-> given.value.Error.Message]

\* a 404 error was classified for a blob that holds rate-limit phrasing
C16_Witness ==
    /\ ppc = "done"
    /\ HasErrorCode(given)
    /\ given.value.Error.Code = 404
    /\ RateLimited(Blob)
    /\ upstream.HTTPStatus = 404

\* C17: when the parsed response is absent or carries no non-zero error code
\* and the blob holds a rate-limit phrasing, the status is HTTPStatus 429, Code
\* "RESOURCE_EXHAUSTED" and the fixed message.
C17_RateLimitPhrasing ==
    (Detected /\ ~HasErrorCode(given) /\ RateLimited(Blob))
        => upstream = [HTTPStatus |-> 429, Code |-> "RESOURCE_EXHAUSTED",
                       Message |-> "Upstream rate limited or model capacity exhausted"]

\* a blob with a phrasing and a parsed response whose error code is 0
C17_Witness ==
    /\ ppc = "done"
    /\ given.ok
    /\ given.value.Error # NoError
    /\ given.value.Error.Code = 0
    /\ HasToken(Blob, {"rateLimitExceeded"})
    /\ upstream.HTTPStatus = 429

\* C18: the status is absent exactly when the parsed response carries no
\* non-zero error code and the blob holds no rate-limit phrasing; Ask then
\* returns no status, whether gemini exited with an error or not.
C18_AbsentStatus ==
    /\ Detected => (upstream = NoStatus <=> (~HasErrorCode(given) /\ ~RateLimited(Blob)))
    /\ (ppc = "done" /\ given = parseResult /\ upstream = NoStatus)
          => \A failed \in BOOLEAN : outcome[failed].status = NoStatus

\* an answer parsed from a blob without any failure signal, returned without status
C18_Witness ==
    /\ ppc = "done"
    /\ given = parseResult
    /\ parseResult.ok
    /\ upstream = NoStatus
    /\ outcome[FALSE] = AskReturn(<<"ok">>, NoStatus, HErrNone)

\* C19: when gemini exits successfully, no JSON object can be extracted from
\* its output and the trimmed output is not empty, the headless Ask returns
\* the trimmed output as the answer with a nil error.
C19_FallbackReturnsTrimmedOutput ==
    \A c \in Callers :
        (hpc[c] = "done" /\ cmd[c] = "exited" /\ ~extractLastJSONObject(hout[c]).found
         /\ TrimSpace(hout[c]) # <<>>)
            => (hresult[c].answer = TrimSpace(hout[c]) /\ hresult[c].err = HErrNone)

\* output with surrounding white space and no JSON was returned trimmed
C19_Witness ==
    \E c \in Callers :
        /\ hpc[c] = "done"
        /\ cmd[c] = "exited"
        /\ hout[c] = <<" ", "hello", "\n">>
        /\ hresult[c].answer = <<"hello">>

\* C20: whenever the headless Ask returns a nil error its answer is not empty.
C20_NilErrorHasAnswer ==
    \A c \in Callers :
        (hpc[c] = "done" /\ hresult[c].err = HErrNone) => hresult[c].answer # <<>>

\* C21: whenever the output of the subprocess yields a non-empty answer text
\* (the trimmed response of the parsed object) together with a status
\* classified with HTTPStatus 429, whether gemini exited with an error or not
\* and whatever other text the blob holds, the headless Ask returns that
\* answer with that status and a nil error.
C21_RateLimitedAnswerReturned ==
    \A c \in Callers :
        LET p == parseGeminiOutput(hout[c])
            st == detectUpstreamStatus(hout[c], TRUE, p.value)
            ans == TrimSpace(p.value.Response)
        IN (hpc[c] = "done" /\ p.ok /\ ans # <<>>
            /\ st.HTTPStatus = StatusTooManyRequests)
               => hresult[c] = AskReturn(ans, st, HErrNone)

\* the substrings by which an unknown model is recognised
ModelNotFoundMarks == {"ModelNotFoundError", "not found"}

\* gemini of caller c exited with an error and its output holds such a mark
NotFoundInOutput(c) ==
    cmd[c] = "failed" /\ HasToken(hout[c], ModelNotFoundMarks)

\* gemini of caller c exited successfully with a parsed error holding a mark
NotFoundInError(c) ==
    LET p == parseGeminiOutput(hout[c]) IN
    /\ cmd[c] = "exited"
    /\ p.ok
    /\ p.value.Error # NoError
    /\ HasToken(<<p.value.Error.Type, p.value.Error.Message>>, ModelNotFoundMarks)

\* the rate-limit special case applies to the output of caller c
Salvaged(c) ==
    LET p == parseGeminiOutput(hout[c])
        st == detectUpstreamStatus(hout[c], TRUE, p.value)
    IN p.ok /\ TrimSpace(p.value.Response) # <<>>
       /\ st.HTTPStatus = StatusTooManyRequests

\* C31: when gemini exits with an error and its output holds
\* 'ModelNotFoundError' or 'not found', whatever else it holds, or when it
\* exits successfully with a parsed error whose type or message holds them,
\* the headless Ask returns an empty answer and the model-not-found error.
C31_ModelNotFoundClassified ==
    \A c \in Callers :
        (hpc[c] = "done" /\ (NotFoundInOutput(c) \/ NotFoundInError(c)))
            => (hresult[c].answer = <<>> /\ hresult[c].err = HErrModelNotFound)

\* C31 (amended): the same, except that after a successful exit the parsed
\* error is classified only when the rate-limit special case does not apply;
\* after a failing exit the marks are looked for before anything else.
C31_ModelNotFoundUnlessSalvaged ==
    \A c \in Callers :
        (hpc[c] = "done"
         /\ (NotFoundInOutput(c) \/ (NotFoundInError(c) /\ ~Salvaged(c))))
            => (hresult[c].answer = <<>> /\ hresult[c].err = HErrModelNotFound)

C31_Witness ==
    \E c, d \in Callers :
        /\ hpc[c] = "done" /\ NotFoundInOutput(c)
        /\ HasToken(hout[c], {"auth"}) /\ Salvaged(c)
        /\ hresult[c].err = HErrModelNotFound
        /\ hpc[d] = "done" /\ NotFoundInError(d) /\ ~Salvaged(d)
        /\ hresult[d].err = HErrModelNotFound

\* C32: the ready flag of the session is true only after the wait for the
\* prompt has taken a prompt line ('Type your message') in; a session whose
\* wait ended without one is not marked ready.
C32_ReadyOnlyAfterPrompt == ready => promptSeen

\* a prompt line ended the exchange
EndedByPrompt ==
    sessPc = "respond" /\ exitBy.kind = "line" /\ isPromptLine(exitBy.line)

\* C34: a prompt line received while collection has not started does not end
\* the exchange: as long as only prompt lines have been received the collector
\* is still reading without collecting (or the timeout has ended it); a prompt
\* line ends the exchange only when at least one answer line was collected
\* before it, and then the exchange ends with the answer.
C34_PromptBeforeCollectionIgnored ==
    /\ (sessPc \in {"collect", "respond"}
        /\ \A i \in 1..Consumed : isPromptLine(feed[i]))
          => (~collecting /\ (sessPc = "collect" \/ exitBy = ByTimeout))
    /\ EndedByPrompt
          => /\ collecting
             /\ pending.err = ErrNone
             /\ \E i \in 1..(Consumed - 1) : IsPlain(feed[i], req.question)

C34_Witness ==
    /\ EndedByPrompt
    /\ Consumed >= 3
    /\ isPromptLine(feed[1])
    /\ pending.answer # <<>>

\* gemini of caller c exited with an error, the last JSON object of its output
\* was parsed and has no error field, and the output holds none of the marks
\* Ask looks for first
FailedWithObject(c) ==
    LET p == parseGeminiOutput(hout[c]) IN
    /\ hpc[c] = "done"
    /\ cmd[c] = "failed"
    /\ p.ok
    /\ p.value.Error = NoError
    /\ ~HasToken(hout[c], ModelNotFoundMarks \cup {"authentication", "auth"})

\* the answer of the parsed object with the status the classifier derives
SalvagedReturn(c) ==
    LET p == parseGeminiOutput(hout[c]) IN
    AskReturn(TrimSpace(p.value.Response),
              detectUpstreamStatus(hout[c], TRUE, p.value), HErrNone)

\* C35: when gemini exits with an error but the last JSON object of its
\* output has a non-empty response and no error field, and the output holds
\* none of 'ModelNotFoundError', 'not found' and 'auth', the headless Ask
\* returns the trimmed response with a nil error and the classified status.
C35_FailedExitAnswerReturned ==
    \A c \in Callers :
        (FailedWithObject(c) /\ parseGeminiOutput(hout[c]).value.Response # <<>>)
            => hresult[c] = SalvagedReturn(c)

\* C35 (amended): the same for a response that is not empty once trimmed; a
\* response of white space only ends in the execution error.
C35_FailedExitTrimmedAnswerReturned ==
    \A c \in Callers :
        FailedWithObject(c) =>
            IF TrimSpace(parseGeminiOutput(hout[c]).value.Response) # <<>>
            THEN hresult[c] = SalvagedReturn(c)
            ELSE hresult[c].answer = <<>> /\ hresult[c].err = HErrExecute

C35_Witness ==
    \E c \in Callers :
        /\ FailedWithObject(c)
        /\ hresult[c].answer # <<>>
        /\ hresult[c].err = HErrNone
        /\ hresult[c].status.HTTPStatus = StatusTooManyRequests

\* C38: on every return path of the headless Ask a non-nil error comes with an
\* empty answer: an answer and an error are never returned together.
C38_ErrorMeansNoAnswer ==
    \A c \in Callers :
        (hpc[c] = "done" /\ hresult[c].err # HErrNone) => hresult[c].answer = <<>>

\* Ask returned an error although the output held a response text, and also
\* returned a degraded result: an answer with a status and a nil error
C38_Witness ==
    \E c, d \in Callers :
        /\ hpc[c] = "done"
        /\ hresult[c].err # HErrNone
        /\ parseGeminiOutput(hout[c]).ok
        /\ TrimSpace(parseGeminiOutput(hout[c]).value.Response) # <<>>
        /\ hpc[d] = "done"
        /\ hresult[d].err = HErrNone
        /\ hresult[d].answer # <<>>
        /\ hresult[d].status # NoStatus

----------------------------------------------------------------------------
(* Properties of the HTTP handlers *)

\* the handler of caller c has taken a request in
Handling(c) == httpReq[c] # NoHttpRequest

\* C22: a request whose question string is empty is answered with HTTP 400 by
\* the handler of /api/ask and by the handler of /v1beta/models/{model}, Ask
\* is never called for it and no subprocess is spawned on its behalf.
C22_EmptyQuestionRejected ==
    \A c \in Callers :
        (Handling(c) /\ httpReq[c].question = <<>>)
            => /\ httpResp[c].code = StatusBadRequest
               /\ asked[c] = 0
               /\ hpc[c] = "idle"
               /\ cmd[c] = "none"

\* both handlers have rejected a well-formed request with an empty question
C22_Witness ==
    \E c, d \in Callers :
        /\ httpReq[c] = HttpRequest("/api/ask", TRUE, TRUE, <<>>, "")
        /\ httpResp[c].error = "Question is required"
        /\ httpReq[d] = HttpRequest("/v1beta/models/:model", TRUE, TRUE, <<>>, "flash")
        /\ httpResp[d].error = "text content cannot be empty"
        /\ httpResp[c].code = 400
        /\ httpResp[d].code = 400

\* C23: a question that is not empty but is empty after trimming white space
\* is rejected with HTTP 400 and is never forwarded to Ask.
C23_BlankQuestionRejected ==
    \A c \in Callers :
        (Handling(c) /\ httpReq[c].question # <<>>
         /\ TrimSpace(httpReq[c].question) = <<>>)
            => /\ httpResp[c].code = StatusBadRequest
               /\ asked[c] = 0

\* C29: for a valid request (a body that binds, a non-empty question)
\* POST /api/ask calls Ask exactly once, answers only after Ask has returned,
\* and maps what Ask returned one-to-one: a non-nil error gives HTTP 500 with
\* the error text and the status Ask returned, a nil error gives HTTP 200 with
\* the answer and the status Ask returned.
C29_AskMappedOneToOne ==
    \A c \in Callers :
        (Handling(c) /\ httpReq[c].route = "/api/ask" /\ httpReq[c].bind
         /\ httpReq[c].question # <<>>)
            => /\ asked[c] = 1
               /\ httpResp[c] # NoHttpResponse =>
                     /\ hpc[c] = "done"
                     /\ hresult[c].err # HErrNone =>
                           httpResp[c] = [code |-> 500, answer |-> <<>>,
                                          error |-> hresult[c].err,
                                          status |-> hresult[c].status]
                     /\ hresult[c].err = HErrNone =>
                           httpResp[c] = [code |-> 200, answer |-> hresult[c].answer,
                                          error |-> "", status |-> hresult[c].status]

\* the degraded outcome (an answer with a 429 status) was answered with HTTP
\* 200, and an error that carries a status with HTTP 500
C29_Witness ==
    \E c, d \in Callers :
        /\ httpReq[c].route = "/api/ask"
        /\ httpResp[c].code = 200
        /\ httpResp[c].answer = <<"partial">>
        /\ httpResp[c].status.HTTPStatus = 429
        /\ httpReq[d].route = "/api/ask"
        /\ httpResp[d].code = 500
        /\ httpResp[d].error = HErrModelNotFound
        /\ httpResp[d].status.HTTPStatus = 404


----------------------------------------------------------------------------
(* Properties of the line filter *)

\* C27: filtering is idempotent on the noise classification: for every raw
\* line, the clean line it gives is classified the same when it is filtered
\* again as it was classified the first time.
C27_FilterIdempotent == fpc = "done" => twice.isNoise = once.isNoise

----------------------------------------------------------------------------
(* Properties of the bridge that starts gemini for every call *)

\* C26: on every path by which Ask finishes after gemini was started, gemini
\* has been sent the interrupt, and it is not left running: it has exited or
\* it has been killed after the grace period.
C26_SignalledOnEveryReturn ==
    \A c \in Callers :
        (tpc[c] = "done" /\ tproc[c] # "none") =>
            (\E i \in 1..Len(tsig[c]) : tsig[c][i] = "interrupt")

\* C36: the service mutex is never requested by a goroutine that already
\* holds it, so that AskWithEnv and the Ask it calls do not deadlock and every
\* call returns.
C36_MutexNotRequestedByHolder ==
    \A c \in Callers : ~(tpc[c] = "lock" /\ tmu = c)

\* C37: the reader goroutine of an Ask call is never left trying to send its
\* completion signal after that Ask has returned: nothing receives from the
\* unbuffered channel then, and the goroutine would never terminate.
C37_ReaderNotLeftSending ==
    \A c \in Callers :
        ~(tpc[c] = "done" /\ rpc[c] \in {"sendNil", "sendAuth", "sendScanner"})


====
